---- MODULE Spec2Model ----
(***************************************************************************)
(* Verification model of the nori-profiles installer core: the Disk Config *)
(* store, the managed-block editor of CLAUDE.md / AGENTS.md and the        *)
(* multi-registry profile resolution.                                      *)
(*                                                                         *)
(* Each subsystem has its own specification (SpecConfig, SpecBlock,        *)
(* SpecRegistry) over the shared variables; a specification leaves the     *)
(* variables of the other subsystems unchanged.                            *)
(***************************************************************************)
EXTENDS Integers, Sequences, FiniteSets, TLC

VARIABLES
    cfgFile,      \* content of the config JSON file, or NoFile
    cfgPrev,      \* content of the config file before the last operation
    cfgOp,        \* the last config operation: [name, arg]
    mdFile,       \* CLAUDE.md: [exists, content]
    profileMd,    \* the instructions: the selected profile's CLAUDE.md + skills list
    mdPrev,       \* CLAUDE.md before the last loader operation
    mdOp,         \* the last loader operation on CLAUDE.md
    mdOrig,       \* CLAUDE.md before the appending insert that was just removed
    mdClean,      \* TRUE iff CLAUDE.md started without a BEGIN sentinel
    regConfig,    \* what loadConfig returns: [isNull, registryAuths]
    regStatus,    \* per registry: does it serve the profile ("hit"/"miss"/"error")
    regTokenFails,\* the registries whose auth-token request fails
    profileDir,   \* the target profile directory: "absent" or "present"
    regOp,        \* the last registry command: [cmd, registryUrl]
    regQueried,   \* the registry queries the last command sent, in order
    regResults,   \* the search results of the last command
    regOutcome,   \* how the last command ended
    regTarball,   \* the downloadTarball call of the last command, if any
    regSteps,     \* what the last command did to fetch and unpack, in order
    regPrev,      \* the command before the last, when it ended in an ambiguity error
    fsCwd,        \* the working directory of the commands
    fsMarked,     \* the directories that hold the installation marker
    resolution,   \* how the last command resolved its installation
    fsVersioned,  \* the directories that hold the installed-version file
    settings,     \* settings.json of the installation
    profilesOnDisk,\* the installed-profiles directory: per name, the profile there
    pipeLog,      \* the loader calls of the last pipeline command, in order
    pipeRun,      \* the last pipeline command and what it found
    pristine,     \* the artifacts as they were before the first command
    profileTree,  \* the entries of the package's and of the installed profiles directory
    listing,      \* the last listing of profiles: [cmd, names, threw]
    valFile,      \* the config file as it lies on disk, for validation
    valSaved,     \* the arguments of the saveDiskConfig call that wrote it, if any
    validation,   \* the last result of validateDiskConfig
    versionFiles, \* per directory, the content of its installed-version file
    children,     \* the install processes autoupdate spawned that still run
    hookRun,      \* the last run of a hook script
    template,     \* the template file being copied: [content, installDir, result, done]
    invocation,   \* per concurrent CLI invocation: [pc, op, diskConfig]
    raceLog,      \* the loads and saves of the concurrent invocations, in order
    lastCall      \* per normalized directory: the most recent call that named it

cfgVars == <<cfgFile, cfgPrev, cfgOp>>
mdVars == <<mdFile, profileMd, mdPrev, mdOp, mdOrig, mdClean>>

regVars == <<regConfig, regStatus, regTokenFails, profileDir, regOp, regQueried,
             regResults, regOutcome, regTarball, regSteps, regPrev>>

instVars == <<fsCwd, fsMarked, resolution>>

pipeVars == <<fsVersioned, settings, profilesOnDisk, pipeLog, pipeRun, pristine>>

listVars == <<profileTree, listing>>

valVars == <<valFile, valSaved, validation>>

hookVars == <<versionFiles, children, hookRun>>

tplVars == <<template>>

raceVars == <<invocation, raceLog>>

dirVars == <<lastCall>>

auxVars == <<valVars, hookVars, tplVars, raceVars, dirVars>>

vars == <<cfgVars, mdVars, regVars, instVars, pipeVars, listVars, auxVars>>

(***************************************************************************)
(* Generic helpers                                                         *)
(***************************************************************************)

\* An optional JSON property is a sequence of length 0 (absent) or 1.
Opt(S) == {<<>>} \cup {<<x>> : x \in S}

\* All sequences over S of length 0..n
RECURSIVE SeqsUpTo(_, _)
SeqsUpTo(S, n) ==
    IF n = 0 THEN {<<>>}
    ELSE LET shorter == SeqsUpTo(S, n - 1)
         IN  shorter \cup {Append(s, x) : s \in {t \in shorter : Len(t) = n - 1}, x \in S}

Contains(s, x) == \E i \in 1..Len(s) : s[i] = x

\* Array.prototype.filter keeping order
RECURSIVE FilterOut(_, _)
FilterOut(s, x) ==
    IF s = <<>> THEN <<>>
    ELSE IF Head(s) = x THEN FilterOut(Tail(s), x)
         ELSE <<Head(s)>> \o FilterOut(Tail(s), x)

(***************************************************************************)
(* URLs and install directories.  A URL or a path is a sequence of tokens; *)
(* the token "/" stands for one slash character at that place.             *)
(***************************************************************************)

\* normalizeUrl({baseUrl}): baseUrl.replace(/\/+$/, "")
RECURSIVE normalizeUrl(_)
normalizeUrl(baseUrl) ==
    IF baseUrl # <<>> /\ baseUrl[Len(baseUrl)] = "/"
    THEN normalizeUrl(SubSeq(baseUrl, 1, Len(baseUrl) - 1))
    ELSE baseUrl

\* normalizeInstallDir({path}): canonical form of an install directory
RECURSIVE normalizeInstallDir(_)
normalizeInstallDir(path) ==
    IF Len(path) > 1 /\ path[Len(path)] = "/"
    THEN normalizeInstallDir(SubSeq(path, 1, Len(path) - 1))
    ELSE path

\* the migration default of loadDiskConfig: normalizeInstallDir("~/.claude")
DefaultInstallDir == <<"~/.claude">>

(***************************************************************************)
(* Disk Config store                                                       *)
(***************************************************************************)

NoFile == [kind |-> "nofile"]

Usernames == {"alice"}
Passwords == {"pw"}
OrgUrls == {<<"https://org">>, <<"https://org", "/">>}
ProfileNames == {"profile-a", "profile-b"}
Toggles == {"enabled", "disabled"}
InstallDirNames == {<<"/w">>, <<"/w", "/">>}
RegistryAuthLists == {<<[username |-> "bob", password |-> "s3", registryUrl |-> <<"https://private">>]>>}

\* installDirs as a JSON value: missing property, null, or an array
DirsValue(tag, dirs) == [tag |-> tag, dirs |-> dirs]
DirsAbsent == DirsValue("absent", <<>>)
DirsNull == DirsValue("null", <<>>)
DirsArr(dirs) == DirsValue("arr", dirs)

\* A parsed config file: every property the tools know, each optional
MkFile(u, p, o, prof, cprof, sst, au, dirs, regs) ==
    [kind |-> "file", username |-> u, password |-> p, organizationUrl |-> o,
     profile |-> prof, cursorProfile |-> cprof, sendSessionTranscript |-> sst,
     autoupdate |-> au, installDirs |-> dirs, registryAuths |-> regs]

EmptyObject ==
    MkFile(<<>>, <<>>, <<>>, <<>>, <<>>, <<>>, <<>>, DirsAbsent, <<>>)

\* DiskConfig: the value loadDiskConfig returns (null when there is no file)
NullConfig == [kind |-> "null"]

loadDiskConfig(file) ==
    IF file = NoFile THEN NullConfig
    ELSE
      [kind |-> "config",
       auth |-> IF file.username # <<>> /\ file.password # <<>> /\ file.organizationUrl # <<>>
                THEN <<[username |-> file.username[1], password |-> file.password[1],
                        organizationUrl |-> file.organizationUrl[1]]>>
                ELSE <<>>,
       profile |-> file.profile,
       sendSessionTranscript |->
           IF file.sendSessionTranscript # <<>> THEN file.sendSessionTranscript
           ELSE <<"enabled">>,
       installDirs |->
           IF file.installDirs.tag = "arr"
           THEN DirsArr([i \in 1..Len(file.installDirs.dirs) |->
                            normalizeInstallDir(file.installDirs.dirs[i])])
           ELSE IF file.installDirs.tag = "null" THEN DirsNull
           ELSE DirsArr(<<DefaultInstallDir>>)]

\* saveDiskConfig(args): builds a fresh object from its arguments and writes it.
\* username/password/organizationUrl/profile/sendSessionTranscript: <<>> is
\* null or undefined; installDirs: tag "absent" is undefined.
saveDiskConfig(username, password, organizationUrl, profile, sendSessionTranscript, installDirs) ==
    LET hasAuth == username # <<>> /\ password # <<>> /\ organizationUrl # <<>>
    IN  MkFile(IF hasAuth THEN username ELSE <<>>,
               IF hasAuth THEN password ELSE <<>>,
               IF hasAuth THEN <<normalizeUrl(organizationUrl[1])>> ELSE <<>>,
               profile,
               <<>>,
               sendSessionTranscript,
               <<>>,
               IF installDirs.tag = "arr"
               THEN DirsArr([i \in 1..Len(installDirs.dirs) |->
                                normalizeInstallDir(installDirs.dirs[i])])
               ELSE installDirs,
               <<>>)

\* diskConfig?.auth?.username || null  (and password, organizationUrl)
AuthField(diskConfig, f) ==
    IF diskConfig = NullConfig \/ diskConfig.auth = <<>> THEN <<>>
    ELSE <<diskConfig.auth[1][f]>>

\* diskConfig?.<field> || null
FieldOrNull(diskConfig, f) ==
    IF diskConfig = NullConfig THEN <<>> ELSE diskConfig[f]

\* diskConfig?.installDirs || []
ExistingDirs(diskConfig) ==
    IF diskConfig = NullConfig \/ diskConfig.installDirs.tag # "arr" THEN <<>>
    ELSE diskConfig.installDirs.dirs

\* The profiles present in the installed profiles directory (with CLAUDE.md)
InstalledProfiles == ProfileNames
RequestableProfiles == ProfileNames \cup {"missing"}

\* switchProfile of the Claude Code installer
switchProfile(profileName) ==
    /\ cfgPrev' = cfgFile
    /\ IF profileName \notin InstalledProfiles
       THEN /\ cfgFile' = cfgFile
            /\ cfgOp' = [name |-> "switchProfileNotFound", arg |-> <<profileName>>]
       ELSE LET currentConfig == loadDiskConfig(cfgFile)
            IN  /\ cfgFile' = saveDiskConfig(AuthField(currentConfig, "username"),
                                             AuthField(currentConfig, "password"),
                                             AuthField(currentConfig, "organizationUrl"),
                                             <<profileName>>, <<>>, DirsAbsent)
                /\ cfgOp' = [name |-> "switchProfile", arg |-> <<profileName>>]

\* a Cursor switch that writes the profile field of Claude Code
cursorSwitchProfile_SetsProfile(profileName) ==
    /\ cfgPrev' = cfgFile
    /\ IF profileName \notin InstalledProfiles
       THEN /\ cfgFile' = cfgFile
            /\ cfgOp' = [name |-> "cursorSwitchProfileNotFound", arg |-> <<profileName>>]
       ELSE LET currentConfig == IF cfgFile = NoFile THEN EmptyObject ELSE cfgFile
            IN  /\ cfgFile' = [currentConfig EXCEPT !.profile = <<profileName>>]
                /\ cfgOp' = [name |-> "cursorSwitchProfile", arg |-> <<profileName>>]

\* switchProfile of the Cursor /nori-switch-profile command
cursorSwitchProfile(profileName) ==
    /\ cfgPrev' = cfgFile
    /\ IF profileName \notin InstalledProfiles
       THEN /\ cfgFile' = cfgFile
            /\ cfgOp' = [name |-> "cursorSwitchProfileNotFound", arg |-> <<profileName>>]
       ELSE LET currentConfig == IF cfgFile = NoFile THEN EmptyObject ELSE cfgFile
            IN  /\ cfgFile' = [currentConfig EXCEPT !.cursorProfile = <<profileName>>]
                /\ cfgOp' = [name |-> "cursorSwitchProfile", arg |-> <<profileName>>]

\* addInstallDir without the includes() test before the push
addInstallDir_NoDedup(installDir) ==
    LET normalized == normalizeInstallDir(installDir)
        diskConfig == loadDiskConfig(cfgFile)
        existingDirs == ExistingDirs(diskConfig)
        pushed == Append(existingDirs, normalized)
    IN  /\ cfgPrev' = cfgFile
        /\ cfgFile' = saveDiskConfig(AuthField(diskConfig, "username"),
                                     AuthField(diskConfig, "password"),
                                     AuthField(diskConfig, "organizationUrl"),
                                     FieldOrNull(diskConfig, "profile"),
                                     FieldOrNull(diskConfig, "sendSessionTranscript"),
                                     DirsArr(pushed))
        /\ cfgOp' = [name |-> "addInstallDir", arg |-> <<installDir>>]

addInstallDir(installDir) ==
    LET normalized == normalizeInstallDir(installDir)
        diskConfig == loadDiskConfig(cfgFile)
        existingDirs == ExistingDirs(diskConfig)
        pushed == IF Contains(existingDirs, normalized) THEN existingDirs
                  ELSE Append(existingDirs, normalized)
    IN  /\ cfgPrev' = cfgFile
        /\ cfgFile' = saveDiskConfig(AuthField(diskConfig, "username"),
                                     AuthField(diskConfig, "password"),
                                     AuthField(diskConfig, "organizationUrl"),
                                     FieldOrNull(diskConfig, "profile"),
                                     FieldOrNull(diskConfig, "sendSessionTranscript"),
                                     DirsArr(pushed))
        /\ cfgOp' = [name |-> "addInstallDir", arg |-> <<installDir>>]

removeInstallDir(installDir) ==
    LET normalized == normalizeInstallDir(installDir)
        diskConfig == loadDiskConfig(cfgFile)
        existingDirs == ExistingDirs(diskConfig)
        updatedDirs == FilterOut(existingDirs, normalized)
    IN  /\ cfgPrev' = cfgFile
        /\ cfgFile' = saveDiskConfig(AuthField(diskConfig, "username"),
                                     AuthField(diskConfig, "password"),
                                     AuthField(diskConfig, "organizationUrl"),
                                     FieldOrNull(diskConfig, "profile"),
                                     FieldOrNull(diskConfig, "sendSessionTranscript"),
                                     DirsArr(updatedDirs))
        /\ cfgOp' = [name |-> "removeInstallDir", arg |-> <<installDir>>]

\* The config files an installation can hold when a command starts
InitialConfigFiles ==
    {NoFile} \cup
    {MkFile(u, p, o, prof, cprof, sst, au, dirs, regs) :
        u \in Opt(Usernames), p \in Opt(Passwords), o \in Opt(OrgUrls),
        prof \in Opt({"profile-a"}), cprof \in Opt({"profile-a"}),
        sst \in Opt(Toggles), au \in Opt({"disabled"}),
        dirs \in {DirsAbsent, DirsArr(<<<<"/w">>>>)},
        regs \in Opt(RegistryAuthLists)}

CfgInit ==
    /\ cfgFile \in InitialConfigFiles
    /\ cfgPrev = cfgFile
    /\ cfgOp = [name |-> "none", arg |-> <<>>]

CfgSwitch == \E n \in RequestableProfiles : switchProfile(n)
CfgCursorSwitch == \E n \in RequestableProfiles : cursorSwitchProfile(n)
CfgAddDir == \E d \in InstallDirNames : addInstallDir(d)
CfgRemoveDir == \E d \in InstallDirNames : removeInstallDir(d)


\* C1: switching the active profile leaves registryAuths, the auth fields and
\* sendSessionTranscript of the config file as they were before the switch.
C1_SwitchKeepsUnrelatedFields ==
    (cfgOp.name \in {"switchProfile", "cursorSwitchProfile"} /\ cfgPrev # NoFile)
        => /\ cfgFile.registryAuths = cfgPrev.registryAuths
           /\ cfgFile.username = cfgPrev.username
           /\ cfgFile.password = cfgPrev.password
           /\ cfgFile.organizationUrl = cfgPrev.organizationUrl
           /\ cfgFile.sendSessionTranscript = cfgPrev.sendSessionTranscript

\* C2: adding or removing an install directory leaves every config field the
\* operation does not own (registryAuths, cursorProfile, autoupdate) as it was.
C2_DirOpsKeepUnownedFields ==
    (cfgOp.name \in {"addInstallDir", "removeInstallDir"} /\ cfgPrev # NoFile)
        => /\ cfgFile.registryAuths = cfgPrev.registryAuths
           /\ cfgFile.cursorProfile = cfgPrev.cursorProfile
           /\ cfgFile.autoupdate = cfgPrev.autoupdate

\* C25: a successful /nori-switch-profile of Cursor leaves cursorProfile set
\* to the requested profile and the profile field of Claude Code as it was
\* (absent when there was no config file).
C25_CursorSwitchKeepsClaudeProfile ==
    cfgOp.name = "cursorSwitchProfile" =>
        /\ cfgFile # NoFile
        /\ cfgFile.cursorProfile = cfgOp.arg
        /\ cfgFile.profile = (IF cfgPrev = NoFile THEN <<>> ELSE cfgPrev.profile)

\* Cursor went from profile-a to profile-b while Claude Code stayed on profile-a
C25_Witness ==
    /\ cfgOp = [name |-> "cursorSwitchProfile", arg |-> <<"profile-b">>]
    /\ cfgPrev # NoFile
    /\ cfgPrev.cursorProfile = <<"profile-a">> /\ cfgPrev.profile = <<"profile-a">>
    /\ cfgFile.cursorProfile = <<"profile-b">> /\ cfgFile.profile = <<"profile-a">>

(***************************************************************************)
(* Two CLI invocations on one config file.  addInstallDir and              *)
(* removeInstallDir await loadDiskConfig and then saveDiskConfig; nothing  *)
(* is held between the two, so the steps of two invocations interleave.    *)
(***************************************************************************)

Invocations == {1, 2}

\* The directory each invocation adds or removes
RaceDir(p) == IF p = 1 THEN <<"/w">> ELSE <<"/v">>

NotStarted == [pc |-> "start", op |-> "none", diskConfig |-> NullConfig]

\* The installDirs an invocation saves: what it loaded, with its own directory
\* pushed or filtered out
installDirsAfter_NoMerge(op, diskConfig, installDir) ==
    IF op = "addInstallDir" THEN <<normalizeInstallDir(installDir)>> ELSE <<>>
installDirsAfter(op, diskConfig, installDir) ==
    LET normalized == normalizeInstallDir(installDir)
        existingDirs == ExistingDirs(diskConfig)
    IN  IF op = "addInstallDir"
        THEN (IF Contains(existingDirs, normalized) THEN existingDirs
              ELSE Append(existingDirs, normalized))
        ELSE FilterOut(existingDirs, normalized)

\* The first half of addInstallDir / removeInstallDir: await loadDiskConfig()
raceLoad(p, op) ==
    /\ invocation[p].pc = "start"
    /\ invocation' = [invocation EXCEPT
                         ![p] = [pc |-> "loaded", op |-> op,
                                 diskConfig |-> loadDiskConfig(cfgFile)]]
    /\ raceLog' = Append(raceLog, <<p, "load">>)
    /\ UNCHANGED cfgVars

\* The second half: await saveDiskConfig({...}) with what was loaded
raceSave(p) ==
    LET diskConfig == invocation[p].diskConfig
    IN  /\ invocation[p].pc = "loaded"
        /\ cfgFile' = saveDiskConfig(AuthField(diskConfig, "username"),
                                     AuthField(diskConfig, "password"),
                                     AuthField(diskConfig, "organizationUrl"),
                                     FieldOrNull(diskConfig, "profile"),
                                     FieldOrNull(diskConfig, "sendSessionTranscript"),
                                     DirsArr(installDirsAfter(invocation[p].op, diskConfig,
                                                              RaceDir(p))))
        /\ cfgPrev' = cfgFile
        /\ cfgOp' = [name |-> invocation[p].op, arg |-> <<RaceDir(p)>>]
        /\ invocation' = [invocation EXCEPT ![p].pc = "done"]
        /\ raceLog' = Append(raceLog, <<p, "save">>)

RaceIdle ==
    /\ invocation = [p \in Invocations |-> NotStarted]
    /\ raceLog = <<>>

\* The config file the two invocations find
RaceConfigFiles ==
    {NoFile} \cup
    {MkFile(<<>>, <<>>, <<>>, prof, <<>>, <<>>, <<>>, dirs, <<>>) :
        prof \in Opt({"profile-a"}),
        dirs \in {DirsArr(<<>>), DirsArr(<<<<"/w">>>>), DirsArr(<<<<"/w">>, <<"/v">>>>)}}

RaceInit ==
    /\ RaceIdle
    /\ cfgFile \in RaceConfigFiles
    /\ cfgPrev = cfgFile
    /\ cfgOp = [name |-> "none", arg |-> <<>>]

(***************************************************************************)
(* Sequences of addInstallDir and removeInstallDir calls, with the most    *)
(* recent call on each normalized directory remembered.                    *)
(***************************************************************************)

\* The directories the calls name
DirArgs == {<<"/w">>, <<"/w", "/">>, <<"/v">>, DefaultInstallDir}
NormalizedDirs == {normalizeInstallDir(d) : d \in DirArgs}

NoCalls == [d \in NormalizedDirs |-> "none"]

\* The call op on installDir enters the history.  A call that loads a config
\* file without an installDirs property has the migration default of
\* loadDiskConfig in the list it starts from, which the history notes first.
Called(op, installDir) ==
    LET migrated == cfgFile # NoFile /\ cfgFile.installDirs.tag = "absent"
        base == IF migrated THEN [lastCall EXCEPT ![DefaultInstallDir] = "migration"]
                ELSE lastCall
    IN  lastCall' = [base EXCEPT ![normalizeInstallDir(installDir)] = op]

callAddInstallDir(installDir) ==
    addInstallDir(installDir) /\ Called("addInstallDir", installDir)

callRemoveInstallDir(installDir) ==
    removeInstallDir(installDir) /\ Called("removeInstallDir", installDir)

DirIdle == lastCall = NoCalls

\* The config files that hold no install directory yet: no file, a file
\* without the installDirs property, with null, or with an empty array
FilesWithoutDirs ==
    {NoFile} \cup
    {MkFile(<<>>, <<>>, <<>>, prof, <<>>, sst, <<>>, dirs, <<>>) :
        prof \in Opt({"profile-a"}), sst \in Opt(Toggles),
        dirs \in {DirsAbsent, DirsNull, DirsArr(<<>>)}}

DirInit ==
    /\ cfgFile \in FilesWithoutDirs
    /\ cfgPrev = cfgFile
    /\ cfgOp = [name |-> "none", arg |-> <<>>]
    /\ lastCall = NoCalls

\* The installDirs array stored in the config file
StoredDirs ==
    IF cfgFile = NoFile \/ cfgFile.installDirs.tag # "arr" THEN <<>>
    ELSE cfgFile.installDirs.dirs

EachOnce(s) == \A i, j \in 1..Len(s) : s[i] = s[j] => i = j

\* C30: after any sequence of addInstallDir and removeInstallDir calls the
\* stored installDirs list contains exactly the normalized directories whose
\* most recent call was addInstallDir, each exactly once.
C30_StoredDirsAreLastAdded ==
    /\ {StoredDirs[i] : i \in 1..Len(StoredDirs)}
          = {d \in NormalizedDirs : lastCall[d] = "addInstallDir"}
    /\ EachOnce(StoredDirs)

\* C30 as the code has it: the list holds, each exactly once, the normalized
\* directories whose most recent call was addInstallDir and, when the first
\* call found a config file without an installDirs property, the migration
\* default ~/.claude as long as no call has removed it.
C30_StoredDirsAreLastAddedOrMigrated ==
    /\ {StoredDirs[i] : i \in 1..Len(StoredDirs)}
          = {d \in NormalizedDirs : lastCall[d] \in {"addInstallDir", "migration"}}
    /\ EachOnce(StoredDirs)

\* /w/ added twice and removed, /v added, on a file that had no installDirs
C30_Witness ==
    /\ lastCall[<<"/w">>] = "removeInstallDir"
    /\ lastCall[<<"/v">>] = "addInstallDir"
    /\ lastCall[DefaultInstallDir] = "migration"
    /\ cfgOp = [name |-> "removeInstallDir", arg |-> <<<<"/w", "/">>>>]
    /\ StoredDirs = <<DefaultInstallDir, <<"/v">>>>

(***************************************************************************)
(* Validation of the config file.  The file as it lies on disk: missing,   *)
(* unreadable, not JSON, or a JSON object whose properties hold JSON       *)
(* values.  A string is a sequence of tokens, the empty string is <<>>.    *)
(***************************************************************************)

\* JSON values of a property: missing, a string, or a number
JsonAbsent == [t |-> "absent", v |-> <<>>]
JsonStr(s) == [t |-> "string", v |-> s]
JsonNum == [t |-> "number", v |-> <<>>]

\* The properties the tools write that configSchema does not list
OtherProperties == {"profile", "cursorProfile", "autoupdate", "registryAuths"}

\* A JSON object on disk
RawObject(u, p, o, sst, dirs, extra) ==
    [state |-> "json", username |-> u, password |-> p, organizationUrl |-> o,
     sendSessionTranscript |-> sst, installDirs |-> dirs, extra |-> extra]

RawOther(state) ==
    [state |-> state, username |-> JsonAbsent, password |-> JsonAbsent,
     organizationUrl |-> JsonAbsent, sendSessionTranscript |-> JsonAbsent,
     installDirs |-> DirsAbsent, extra |-> {}]

\* JSON.stringify(config, null, 2) of the object saveDiskConfig built, and
\* the file that results
Stringify(file) ==
    IF file = NoFile THEN RawOther("missing")
    ELSE RawObject(
           IF file.username = <<>> THEN JsonAbsent ELSE JsonStr(file.username),
           IF file.password = <<>> THEN JsonAbsent ELSE JsonStr(file.password),
           IF file.organizationUrl = <<>> THEN JsonAbsent
           ELSE JsonStr(file.organizationUrl[1]),
           IF file.sendSessionTranscript = <<>> THEN JsonAbsent
           ELSE JsonStr(file.sendSessionTranscript),
           file.installDirs,
           {n \in OtherProperties : file[n] # <<>>})

\* config.<field> && typeof config.<field> === 'string'
Truthy(j) == j.t = "string" /\ j.v # <<>>

\* new URL(s) does not throw: the text starts with a scheme
UrlHeads == {"https://org", "https://private"}
ParsesAsUrl(s) == s # <<>> /\ s[1] \in UrlHeads

\* ajv: validate(config) against configSchema
SchemaValid(raw) ==
    /\ raw.username.t \in {"absent", "string"}
    /\ raw.password.t \in {"absent", "string"}
    /\ raw.organizationUrl.t \in {"absent", "string"}
    /\ \/ raw.sendSessionTranscript.t = "absent"
       \/ /\ raw.sendSessionTranscript.t = "string"
          /\ raw.sendSessionTranscript.v \in {<<"enabled">>, <<"disabled">>}
    /\ \/ raw.installDirs.tag = "absent"
       \/ /\ raw.installDirs.tag = "arr"
          /\ \A i \in 1..Len(raw.installDirs.dirs) :
                /\ raw.installDirs.dirs[i] # <<>>
                /\ \A k \in 1..Len(raw.installDirs.dirs) :
                      raw.installDirs.dirs[k] = raw.installDirs.dirs[i] => k = i
    /\ raw.extra = {}

ValidationResult(valid, message, errors) ==
    [valid |-> valid, message |-> message, errors |-> errors]
NoValidation == ValidationResult(FALSE, "none", <<>>)

\* validateDiskConfig(): the result for the file on disk
validateDiskConfig(raw) ==
    IF raw.state = "missing"
    THEN ValidationResult(FALSE, "No nori-config.json found",
                          <<"Config file not found", "Run nori-ai install">>)
    ELSE IF raw.state = "unreadable"
    THEN ValidationResult(FALSE, "Unable to read nori-config.json",
                          <<"Failed to read config file">>)
    ELSE IF raw.state = "badjson"
    THEN ValidationResult(FALSE, "Invalid JSON in nori-config.json",
                          <<"Config file contains invalid JSON">>)
    ELSE
      LET hasUsername == Truthy(raw.username)
          hasPassword == Truthy(raw.password)
          hasOrgUrl == Truthy(raw.organizationUrl)
          someProvided == hasUsername \/ hasPassword \/ hasOrgUrl
          allProvided == hasUsername /\ hasPassword /\ hasOrgUrl
          missing == (IF hasUsername THEN <<>> ELSE <<"Missing username field">>)
                     \o (IF hasPassword THEN <<>> ELSE <<"Missing password field">>)
                     \o (IF hasOrgUrl THEN <<>> ELSE <<"Missing organizationUrl field">>)
          errors == (IF SchemaValid(raw) THEN <<>> ELSE <<"Validation Error">>)
                    \o (IF ParsesAsUrl(raw.organizationUrl.v) THEN <<>>
                        ELSE <<"Invalid URL format for organizationUrl">>)
      IN  IF someProvided /\ ~allProvided
          THEN ValidationResult(FALSE, "Partial credentials provided - all fields are required",
                                missing)
          ELSE IF ~someProvided
          THEN ValidationResult(TRUE, "Config is valid for free mode (no credentials provided)",
                                <<>>)
          ELSE IF errors # <<>>
          THEN ValidationResult(FALSE, "Config has validation errors", errors)
          ELSE ValidationResult(TRUE, "Config is valid for paid mode", <<>>)

\* The config files a user can have put on disk by hand
RawStrings == {JsonAbsent, JsonStr(<<>>), JsonStr(<<"alice">>)}
RawFiles ==
    {RawOther(s) : s \in {"missing", "unreadable", "badjson"}} \cup
    {RawObject(u, p, o, sst, dirs, extra) :
        u \in RawStrings \cup {JsonNum},
        p \in RawStrings,
        o \in {JsonAbsent, JsonStr(<<>>), JsonStr(<<"https://org">>), JsonStr(<<"org">>)},
        sst \in {JsonAbsent, JsonStr(<<"enabled">>), JsonStr(<<"sometimes">>)},
        dirs \in {DirsAbsent, DirsArr(<<<<"/w">>>>)},
        extra \in {{}, {"profile"}}}

\* saveDiskConfig(args) writes the file
valSaveDiskConfig(username, password, organizationUrl, profile, sendSessionTranscript, installDirs) ==
    LET saved == saveDiskConfig(username, password, organizationUrl, profile,
                                sendSessionTranscript, installDirs)
    IN  /\ valFile' = Stringify(saved)
        /\ valSaved' = <<[username |-> username, password |-> password,
                          organizationUrl |-> organizationUrl, profile |-> profile]>>
        /\ validation' = NoValidation

\* validateDiskConfig() is called
valValidate ==
    /\ validation' = validateDiskConfig(valFile)
    /\ UNCHANGED <<valFile, valSaved>>

ValIdle ==
    /\ valFile = RawOther("missing")
    /\ valSaved = <<>>
    /\ validation = NoValidation

ValInit ==
    /\ valFile \in RawFiles
    /\ valSaved = <<>>
    /\ validation = NoValidation

(***************************************************************************)
(* Managed-block editor (CLAUDE.md loader; the AGENTS.md loader of Cursor  *)
(* carries the same code).  A file is a sequence of tokens: "n" is a       *)
(* newline, "B" and "E" are the two sentinel texts (neither can overlap    *)
(* itself or the other), every other token is one ordinary character.      *)
(***************************************************************************)

BEGIN_MARKER == "B"
END_MARKER == "E"
Whitespace == {"n", " "}

\* Where /BEGIN\n[\s\S]*?\nEND\n?/ matched at position i ends (the index after
\* the match), or 0 when it does not match there.
BlockEnd(s, i) ==
    IF i + 1 <= Len(s) /\ s[i] = BEGIN_MARKER /\ s[i + 1] = "n"
    THEN LET ends == {j \in (i + 2)..(Len(s) - 1) : s[j] = "n" /\ s[j + 1] = END_MARKER}
         IN  IF ends = {} THEN 0
             ELSE LET j == CHOOSE k \in ends : \A m \in ends : k <= m
                  IN  IF j + 2 <= Len(s) /\ s[j + 2] = "n" THEN j + 3 ELSE j + 2
    ELSE 0

\* Where the block regex matched at i ends; leadingNewline adds the \n? that
\* the removal regex has in front of BEGIN.
MatchEnd(s, i, leadingNewline) ==
    IF leadingNewline /\ i <= Len(s) /\ s[i] = "n" /\ BlockEnd(s, i + 1) # 0
    THEN BlockEnd(s, i + 1)
    ELSE BlockEnd(s, i)

\* String.prototype.replace's expansion of a replacement string: $$ is a
\* dollar, $& the match, $` the text before it, $' the text after it.  Each
\* of these two-character patterns is one token of the replacement.
RECURSIVE ExpandReplacement(_, _, _, _)
ExpandReplacement(repl, matched, before, after) ==
    IF repl = <<>> THEN <<>>
    ELSE (CASE Head(repl) = "$$" -> <<"$">>
            [] Head(repl) = "$&" -> matched
            [] Head(repl) = "$`" -> before
            [] Head(repl) = "$'" -> after
            [] OTHER -> <<Head(repl)>>)
         \o ExpandReplacement(Tail(repl), matched, before, after)

\* content.replace(regex, repl) with the g flag, scanning from position i
RECURSIVE ReplaceFrom(_, _, _, _)
ReplaceFrom(s, i, leadingNewline, repl) ==
    IF i > Len(s) THEN <<>>
    ELSE LET e == MatchEnd(s, i, leadingNewline)
         IN  IF e = 0 THEN <<s[i]>> \o ReplaceFrom(s, i + 1, leadingNewline, repl)
             ELSE ExpandReplacement(repl, SubSeq(s, i, e - 1), SubSeq(s, 1, i - 1),
                                    SubSeq(s, e, Len(s)))
                  \o ReplaceFrom(s, e, leadingNewline, repl)

ReplaceAll(s, leadingNewline, repl) == ReplaceFrom(s, 1, leadingNewline, repl)

\* updated.trim() === ""
TrimIsEmpty(s) == \A i \in 1..Len(s) : s[i] \in Whitespace

AbsentFile == [exists |-> FALSE, content |-> <<>>]
FileOf(content) == [exists |-> TRUE, content |-> content]

\* The managed block as insertClaudeMd writes it
BlockText(instructions) ==
    <<BEGIN_MARKER, "n">> \o instructions \o <<"n", END_MARKER, "n">>

\* The new content of CLAUDE.md computed by insertClaudeMd
UpsertBlock(content, instructions) ==
    IF Contains(content, BEGIN_MARKER)
    THEN ReplaceAll(content, FALSE, BlockText(instructions))
    ELSE content \o <<"n">> \o BlockText(instructions)

\* removeClaudeMd with a regex that lacks the leading \n?
RemoveBlock_NoLeadingNewline(file) ==
    IF ~file.exists THEN file
    ELSE IF ~Contains(file.content, BEGIN_MARKER) THEN file
    ELSE LET updated == ReplaceAll(file.content, FALSE, <<>>)
         IN  IF TrimIsEmpty(updated) THEN AbsentFile ELSE FileOf(updated)

\* removeClaudeMd without the deletion of an emptied file
RemoveBlock_AlwaysWrite(file) ==
    IF ~file.exists THEN file
    ELSE IF ~Contains(file.content, BEGIN_MARKER) THEN file
    ELSE FileOf(ReplaceAll(file.content, TRUE, <<>>))

\* The file removeClaudeMd leaves
RemoveBlock(file) ==
    IF ~file.exists THEN file
    ELSE IF ~Contains(file.content, BEGIN_MARKER) THEN file
    ELSE LET updated == ReplaceAll(file.content, TRUE, <<>>)
         IN  IF TrimIsEmpty(updated) THEN AbsentFile ELSE FileOf(updated)

MaxContent == 3
MaxBody == 2
MaxFile == 20

ContentAlphabet == {"a", "n", BEGIN_MARKER, END_MARKER}
\* "$&" is the two characters dollar, ampersand
BodyAlphabet == {"a", "n", BEGIN_MARKER, END_MARKER, "$&"}
InitialContents == SeqsUpTo(ContentAlphabet, MaxContent)
Bodies == SeqsUpTo(BodyAlphabet, MaxBody)

NoOrig == [set |-> FALSE, file |-> AbsentFile]

insertClaudeMd ==
    LET content == IF mdFile.exists THEN mdFile.content ELSE <<>>
        written == UpsertBlock(content, profileMd)
    IN  /\ Len(written) <= MaxFile
        /\ mdFile' = FileOf(written)
        /\ mdPrev' = mdFile
        /\ mdOp' = IF Contains(content, BEGIN_MARKER) THEN "replace" ELSE "append"
        /\ mdOrig' = IF Contains(content, BEGIN_MARKER) THEN NoOrig
                     ELSE [set |-> TRUE, file |-> mdFile]
        /\ UNCHANGED <<profileMd, mdClean>>

removeClaudeMd ==
    /\ mdFile' = RemoveBlock(mdFile)
    /\ mdPrev' = mdFile
    /\ mdOp' = IF ~mdFile.exists THEN "removeNoFile"
               ELSE IF ~Contains(mdFile.content, BEGIN_MARKER) THEN "removeNoBlock"
               ELSE "remove"
    /\ mdOrig' = IF mdOp = "append" THEN mdOrig ELSE NoOrig
    /\ UNCHANGED <<profileMd, mdClean>>

MdInit ==
    /\ mdFile \in {AbsentFile} \cup {FileOf(c) : c \in InitialContents}
    /\ profileMd \in Bodies
    /\ mdPrev = mdFile
    /\ mdOp = "none"
    /\ mdOrig = NoOrig
    /\ mdClean = ~Contains(mdFile.content, BEGIN_MARKER)

MdIdle ==
    /\ mdFile = AbsentFile
    /\ profileMd = <<>>
    /\ mdPrev = AbsentFile
    /\ mdOp = "none"
    /\ mdOrig = NoOrig
    /\ mdClean = TRUE

(***************************************************************************)
(* Properties of the managed-block editor                                  *)
(***************************************************************************)

\* The positions where a managed block (a match of the block regex) starts,
\* scanning as a global regex does: left to right, matches do not overlap.
RECURSIVE BlockStartsFrom(_, _)
BlockStartsFrom(s, i) ==
    IF i > Len(s) THEN <<>>
    ELSE IF BlockEnd(s, i) = 0 THEN BlockStartsFrom(s, i + 1)
         ELSE <<i>> \o BlockStartsFrom(s, BlockEnd(s, i))

CountBlocks(s) == Len(BlockStartsFrom(s, 1))

CountBegin(s) == Cardinality({i \in 1..Len(s) : s[i] = BEGIN_MARKER})

\* The file holds one managed block and no other BEGIN sentinel
ExactlyOneBlock(s) == CountBlocks(s) = 1 /\ CountBegin(s) = 1

BlockStart(s) == BlockStartsFrom(s, 1)[1]

\* A newline directly followed by the END sentinel occurs in the body
HasEndLine(body) ==
    \E i \in 1..(Len(body) - 1) : body[i] = "n" /\ body[i + 1] = END_MARKER

\* C3 (as stated): for every content without a managed block and every body,
\* inserting the block and then removing it gives back exactly the original
\* file content.
C3_RoundTripAlways ==
    (mdOp = "remove" /\ mdOrig.set) => mdFile = mdOrig.file

\* C3 (amended): the round trip gives back exactly the original content when
\* that content is not empty or whitespace-only and the body holds no newline
\* directly followed by the END sentinel; from an empty, whitespace-only or
\* missing file it ends with no file.
C3_RoundTrip ==
    (mdOp = "remove" /\ mdOrig.set /\ ~HasEndLine(profileMd))
        => IF mdOrig.file.exists /\ ~TrimIsEmpty(mdOrig.file.content)
           THEN mdFile = mdOrig.file
           ELSE mdFile = AbsentFile

C3_Witness ==
    /\ mdOp = "remove" /\ mdOrig.set /\ ~HasEndLine(profileMd)
    /\ mdOrig.file.exists /\ ~TrimIsEmpty(mdOrig.file.content)
    /\ Len(profileMd) > 0
    /\ mdFile = mdOrig.file

\* C4: when the file holds a managed block, install replaces only the text
\* between the sentinels by the new body; the bytes before BEGIN and after
\* the END line stay as they were.
C4_ReplaceOnlyBody ==
    (mdOp = "replace" /\ ExactlyOneBlock(mdPrev.content))
        => LET s == mdPrev.content
               b == BlockStart(s)
               e == BlockEnd(s, b)
           IN  mdFile.content =
                   SubSeq(s, 1, b - 1) \o BlockText(profileMd) \o SubSeq(s, e, Len(s))

\* C5: on a file that started without a managed block, there is exactly one
\* managed block after an install and none after an uninstall.
C5_AtMostOneBlock ==
    mdClean =>
        /\ mdOp \in {"append", "replace"} => CountBlocks(mdFile.content) = 1
        /\ mdOp \in {"remove", "removeNoBlock", "removeNoFile"}
              => CountBlocks(mdFile.content) = 0

\* The content outside the single managed block, less the one newline in
\* front of the BEGIN sentinel that removal strips with it
Outside(s) ==
    LET b == BlockStart(s)
        e == BlockEnd(s, b)
        p == IF b > 1 /\ s[b - 1] = "n" THEN b - 2 ELSE b - 1
    IN  SubSeq(s, 1, p) \o SubSeq(s, e, Len(s))

\* C6: removing the managed block never leaves an empty file: when what
\* remains is empty once trimmed the file is deleted, otherwise what remains
\* is written back.
C6_NoEmptyFileAfterRemove ==
    mdOp = "remove" =>
        /\ mdFile.exists => ~TrimIsEmpty(mdFile.content)
        /\ ExactlyOneBlock(mdPrev.content) =>
              IF TrimIsEmpty(Outside(mdPrev.content))
              THEN mdFile = AbsentFile
              ELSE mdFile = FileOf(Outside(mdPrev.content))

C6_WitnessDeleted ==
    /\ mdOp = "remove" /\ ExactlyOneBlock(mdPrev.content)
    /\ TrimIsEmpty(Outside(mdPrev.content)) /\ Outside(mdPrev.content) # <<>>
    /\ mdFile = AbsentFile

(***************************************************************************)
(* Installation discovery.  A directory is the sequence of the names on    *)
(* its path; <<>> is the filesystem root.                                   *)
(***************************************************************************)

DirNames == {"a"}
MaxDepth == 2

Dirs == SeqsUpTo(DirNames, MaxDepth)

\* path.dirname: the parent directory, the root being its own parent
dirname(dir) == IF dir = <<>> THEN <<>> ELSE SubSeq(dir, 1, Len(dir) - 1)

\* getInstallDirs({currentDir}): while (dir !== path.dirname(dir)), record
\* dir when it holds the installation marker and go on with its parent
RECURSIVE getInstallDirs(_, _)
getInstallDirs(currentDir, marked) ==
    IF dirname(currentDir) = currentDir THEN <<>>
    ELSE (IF currentDir \in marked THEN <<currentDir>> ELSE <<>>)
         \o getInstallDirs(dirname(currentDir), marked)

NoResolution ==
    [cmd |-> "none", kind |-> "none", currentDir |-> <<>>, marked |-> {},
     found |-> <<>>, installDir |-> <<>>, listed |-> <<>>]

\* The record of one command's resolution: what getInstallDirs found from
\* the working directory, what the command did with it (kind), the
\* installation it went on with and the installations it listed to the user
Resolved(cmd, kind, found, installDir, listed) ==
    [cmd |-> cmd, kind |-> kind, currentDir |-> fsCwd, marked |-> fsMarked,
     found |-> found, installDir |-> installDir, listed |-> listed]

\* The three-way branch of the download commands on allInstallations.length
ResolveOrBlock(cmd) ==
    LET allInstallations == getInstallDirs(fsCwd, fsMarked)
    IN  IF Len(allInstallations) = 0
        THEN Resolved(cmd, "noInstallation", allInstallations, <<>>, <<>>)
        ELSE IF Len(allInstallations) > 1
        THEN Resolved(cmd, "blocked", allInstallations, <<>>, allInstallations)
        ELSE Resolved(cmd, "proceed", allInstallations, <<allInstallations[1]>>, <<>>)

\* main of the session-start nested-install-warning hook
nestedInstallWarning ==
    LET allInstallations == getInstallDirs(fsCwd, fsMarked)
    IN  /\ resolution' =
              IF Len(allInstallations) < 2
              THEN Resolved("nestedInstallWarning", "silent", allInstallations, <<>>, <<>>)
              ELSE Resolved("nestedInstallWarning", "warned", allInstallations, <<>>,
                            allInstallations)
        /\ UNCHANGED <<fsCwd, fsMarked>>

\* run of cursorNoriSwitchProfile: /nori-switch-profile [profile-name]
cursorNoriSwitchProfile(profileName) ==
    LET allInstallations == getInstallDirs(fsCwd, fsMarked)
    IN  /\ UNCHANGED <<fsCwd, fsMarked>>
        /\ IF Len(allInstallations) = 0
           THEN /\ resolution' = Resolved("cursorNoriSwitchProfile", "noInstallation",
                                          allInstallations, <<>>, <<>>)
                /\ UNCHANGED cfgVars
           ELSE /\ resolution' = Resolved("cursorNoriSwitchProfile", "proceed",
                                          allInstallations, <<allInstallations[1]>>, <<>>)
                /\ IF profileName = <<>> THEN UNCHANGED cfgVars
                   ELSE cursorSwitchProfile(profileName[1])

\* The user changes the working directory
chdir(dir) ==
    /\ dir # fsCwd
    /\ fsCwd' = dir
    /\ UNCHANGED <<fsMarked, resolution>>

InstIdle ==
    /\ fsCwd = <<"a">>
    /\ fsMarked = {<<"a">>}
    /\ resolution = NoResolution

InstInit ==
    /\ fsCwd \in Dirs
    /\ fsMarked \in SUBSET Dirs
    /\ resolution = NoResolution

(***************************************************************************)
(* The install / uninstall pipeline: the loaders of the registry, run in   *)
(* order by install and in reverse by uninstall, over the artifacts of one *)
(* installation (CLAUDE.md, settings.json, the profiles directory).        *)
(***************************************************************************)

\* The directory a user names with --install-dir
InstallDirArg == <<"a">>

\* getVersionFilePath(args): the directory of .nori-installed-version;
\* installDir = <<>> is a missing, null or empty installDir
getVersionFilePath(installDir) ==
    IF installDir # <<>> THEN installDir[1] ELSE fsCwd

\* getConfigPath({installDir}): the directory of .nori-config.json
getConfigPath(installDir) ==
    IF installDir # <<>> THEN installDir[1] ELSE fsCwd

\* hasExistingInstallation({installDir}); getVersionFilePath is called
\* without arguments
hasExistingInstallation(installDir) ==
    LET versionFileExists == getVersionFilePath(<<>>) \in fsVersioned
        configFileExists == getConfigPath(installDir) \in fsMarked
    IN  versionFileExists \/ configFileExists

\* getDefaultProfile().baseProfile
DefaultProfile == "senior-swe"

\* a generateConfig that ignores the credentials of the disk config
generateConfig_AlwaysFree(diskConfig) ==
    [installType |-> "free",
     profile |-> IF diskConfig # NullConfig /\ diskConfig.profile # <<>>
                 THEN diskConfig.profile[1] ELSE DefaultProfile]

\* generateConfig({diskConfig}): the runtime config
generateConfig(diskConfig) ==
    [installType |-> IF diskConfig # NullConfig /\ diskConfig.auth # <<>>
                     THEN "paid" ELSE "free",
     profile |-> IF diskConfig # NullConfig /\ diskConfig.profile # <<>>
                 THEN diskConfig.profile[1] ELSE DefaultProfile]

\* The profile templates that ship with the package, and the names a
\* directory of the installed-profiles location can have
TemplateProfiles == {"senior-swe", "profile-a"}
ProfileDirNames == TemplateProfiles \cup {"profile-b"}

\* The mixins of the package and the file each contributes
BaseMixins == {"_base", "_docs"}
PaidMixins == {"_paid", "_docs-paid"}
MixinFile(mixin) == <<mixin, "skills">>

\* The mixins composed into a profile, the paid ones only for a paid config
MixinsOf(config) ==
    BaseMixins \cup (IF config.installType = "paid" THEN PaidMixins ELSE {})

NoProfile == [exists |-> FALSE, builtin |-> FALSE, md |-> <<>>, files |-> {}]

\* The CLAUDE.md of a profile template
TemplateMd(name) == IF name = DefaultProfile THEN <<"a">> ELSE <<"a", "n", "a">>

\* A profile directory a user created, with the CLAUDE.md they wrote
UserProfileMds == {<<"a", "a">>, <<"n", END_MARKER>>}
UserProfile(md) == [exists |-> TRUE, builtin |-> FALSE, md |-> md,
                    files |-> {<<"user", "skills">>}]

\* The profile directory composed from a template and its mixins
composeProfile(name, config) ==
    [exists |-> TRUE, builtin |-> TRUE, md |-> TemplateMd(name),
     files |-> {MixinFile(m) : m \in MixinsOf(config)}]

\* settings.json: whether it exists, whether it holds $schema, its
\* statusLine ("none", the user's own or the installer's) and the entries of
\* permissions.additionalDirectories
NoSettings == [exists |-> FALSE, schema |-> FALSE, statusLine |-> "none", dirs |-> {}]

\* configureStatusLine
configureStatusLine(s) ==
    LET settings0 == IF s.exists THEN s
                     ELSE [exists |-> TRUE, schema |-> TRUE, statusLine |-> "none",
                           dirs |-> {}]
    IN  [settings0 EXCEPT !.statusLine = "nori"]

\* removeStatusLine that writes settings.json when there is none
removeStatusLine_WriteWhenMissing(s) ==
    IF ~s.exists THEN [NoSettings EXCEPT !.exists = TRUE]
    ELSE IF s.statusLine # "none" THEN [s EXCEPT !.statusLine = "none"]
    ELSE s

\* removeStatusLine
removeStatusLine(s) ==
    IF ~s.exists THEN s
    ELSE IF s.statusLine # "none" THEN [s EXCEPT !.statusLine = "none"]
    ELSE s

\* run of the profiles loader: every template is composed into the profiles
\* directory and the directory is granted in settings.json
installProfiles(disk, config) ==
    [disk EXCEPT
        !.profiles = [n \in ProfileDirNames |->
                         IF n \in TemplateProfiles THEN composeProfile(n, config)
                         ELSE disk.profiles[n]],
        !.settings = [(IF disk.settings.exists THEN disk.settings
                       ELSE [NoSettings EXCEPT !.exists = TRUE])
                      EXCEPT !.dirs = @ \cup {"profilesDir"}]]

\* uninstall of the profiles loader: the profile directories marked builtin
\* and the grant of the profiles directory are removed
uninstallProfiles(disk) ==
    [disk EXCEPT
        !.profiles = [n \in ProfileDirNames |->
                         IF disk.profiles[n].builtin THEN NoProfile
                         ELSE disk.profiles[n]],
        !.settings = IF disk.settings.exists
                     THEN [disk.settings EXCEPT !.dirs = @ \ {"profilesDir"}]
                     ELSE disk.settings]

\* The loaders in registration order
Registered == <<"profiles", "statusline", "claudemd">>

\* getAll()
getAll(loaders) == loaders

\* getAllReversed() without the reversal
getAllReversed_NotReversed(loaders) == loaders

\* getAllReversed()
getAllReversed(loaders) ==
    [i \in 1..Len(loaders) |-> loaders[Len(loaders) + 1 - i]]

Event(op, loader, at) == [op |-> op, loader |-> loader, at |-> at]

\* loader.run({config}) of one loader on the artifacts; threw tells that it
\* raised (insertClaudeMd cannot read the CLAUDE.md of a missing profile)
RunLoader(name, disk, config) ==
    CASE name = "profiles" -> [disk |-> installProfiles(disk, config), threw |-> FALSE]
      [] name = "statusline" ->
            [disk |-> [disk EXCEPT !.settings = configureStatusLine(@)], threw |-> FALSE]
      [] name = "claudemd" ->
            LET p == disk.profiles[config.profile]
                content == IF disk.md.exists THEN disk.md.content ELSE <<>>
            IN  IF ~p.exists THEN [disk |-> disk, threw |-> TRUE]
                ELSE [disk |-> [disk EXCEPT !.md = FileOf(UpsertBlock(content, p.md))],
                      threw |-> FALSE]

\* loader.uninstall({config}) of one loader
UninstallLoader(name, disk) ==
    CASE name = "profiles" -> uninstallProfiles(disk)
      [] name = "statusline" -> [disk EXCEPT !.settings = removeStatusLine(@)]
      [] name = "claudemd" -> [disk EXCEPT !.md = RemoveBlock(@)]

\* for (const loader of loaders) { await loader.run({ config }); }
RECURSIVE RunAll(_, _, _, _)
RunAll(loaders, disk, config, log) ==
    IF loaders = <<>> THEN [disk |-> disk, log |-> log, threw |-> FALSE]
    ELSE LET r == RunLoader(Head(loaders), disk, config)
         IN  IF r.threw
             THEN [disk |-> r.disk, threw |-> TRUE,
                   log |-> log \o <<Event("run", Head(loaders), "start"),
                                    Event("run", Head(loaders), "throw")>>]
             ELSE RunAll(Tail(loaders), r.disk, config,
                         log \o <<Event("run", Head(loaders), "start"),
                                  Event("run", Head(loaders), "end")>>)

\* for (const loader of loaders) { await loader.uninstall({ config }); }
RECURSIVE UninstallAll(_, _, _)
UninstallAll(loaders, disk, log) ==
    IF loaders = <<>> THEN [disk |-> disk, log |-> log]
    ELSE UninstallAll(Tail(loaders), UninstallLoader(Head(loaders), disk),
                      log \o <<Event("uninstall", Head(loaders), "start"),
                               Event("uninstall", Head(loaders), "end")>>)

\* The artifacts of the installation
Disk == [md |-> mdFile, settings |-> settings, profiles |-> profilesOnDisk]

NoRun ==
    [cmd |-> "none", prev |-> "none", installDir |-> <<>>, cwd |-> <<>>, marked |-> {}, versioned |-> {},
     skipUninstall |-> FALSE, existing |-> FALSE, config |-> generateConfig(NullConfig),
     before |-> <<>>, threw |-> FALSE, hadEndLine |-> FALSE]

\* What a pipeline command leaves: the artifacts, the events and the record
\* of the command
Leave(cmd, skipUninstall, existing, config, disk, log, threw) ==
    /\ mdFile' = disk.md
    /\ mdPrev' = mdFile
    /\ mdOp' = cmd
    /\ mdOrig' = NoOrig
    /\ profileMd' = IF disk.profiles[config.profile].exists
                    THEN disk.profiles[config.profile].md ELSE profileMd
    /\ UNCHANGED mdClean
    /\ settings' = disk.settings
    /\ profilesOnDisk' = disk.profiles
    /\ pipeLog' = log
    /\ pipeRun' = [cmd |-> cmd, prev |-> pipeRun.cmd, installDir |-> <<InstallDirArg>>, cwd |-> fsCwd,
                   marked |-> fsMarked, versioned |-> fsVersioned,
                   skipUninstall |-> skipUninstall, existing |-> existing,
                   config |-> config, before |-> <<Disk>>, threw |-> threw,
                   hadEndLine |-> \/ pipeRun.hadEndLine
                                  \/ /\ pipeRun.cmd = "install" /\ ~pipeRun.threw
                                     /\ HasEndLine(profileMd)]
    /\ UNCHANGED pristine

\* noninteractive of the install command with --install-dir: clean up an
\* existing installation, load the config, run every loader, save the
\* installed version
noninteractive(skipUninstall) ==
    LET existing == hasExistingInstallation(<<InstallDirArg>>)
        config == generateConfig(loadDiskConfig(cfgFile))
        u == IF ~skipUninstall /\ existing
             THEN UninstallAll(getAllReversed(Registered), Disk, <<>>)
             ELSE [disk |-> Disk, log |-> <<>>]
        r == RunAll(getAll(Registered), u.disk, config, u.log)
    IN  /\ Len(r.disk.md.content) <= MaxFile
        /\ Leave("install", skipUninstall, existing, config, r.disk, r.log, r.threw)
        /\ fsVersioned' = IF r.threw THEN fsVersioned
                          ELSE fsVersioned \cup {getVersionFilePath(<<InstallDirArg>>)}
        /\ UNCHANGED <<fsCwd, fsMarked, resolution>>

\* main of the uninstall command: every loader's uninstall, in reverse
uninstallMain ==
    LET config == generateConfig(loadDiskConfig(cfgFile))
        u == UninstallAll(getAllReversed(Registered), Disk, <<>>)
    IN  /\ Leave("uninstall", FALSE, FALSE, config, u.disk, u.log, FALSE)
        /\ UNCHANGED <<fsVersioned, fsCwd, fsMarked, resolution>>

PipeIdle ==
    /\ fsVersioned = {}
    /\ settings = NoSettings
    /\ profilesOnDisk = [n \in ProfileDirNames |-> NoProfile]
    /\ pipeLog = <<>>
    /\ pipeRun = NoRun
    /\ pristine = <<>>

\* The settings.json a user can have before the first install
UserSettings ==
    {NoSettings,
     [exists |-> TRUE, schema |-> TRUE, statusLine |-> "user", dirs |-> {"userDir"}]}

\* The CLAUDE.md a user can have before the first install
UserClaudeMds == {AbsentFile, FileOf(<<"n">>), FileOf(<<"a">>)}

\* The config files of the installation directory: none, or one without
\* credentials, with a username only or with all the credentials
PipeConfigFiles ==
    {NoFile} \cup
    {f \in {MkFile(u, p, <<<<"https://org">>>>, <<>>, <<>>, <<>>, <<>>, DirsAbsent, <<>>) :
        u \in Opt(Usernames), p \in Opt(Passwords)} :
        f.username = <<>> => f.password = <<>>}

PipeInit ==
    /\ fsCwd \in Dirs
    /\ fsVersioned \in SUBSET {fsCwd}
    /\ cfgFile \in PipeConfigFiles
    /\ cfgPrev = cfgFile
    /\ cfgOp = [name |-> "none", arg |-> <<>>]
    /\ fsMarked = IF cfgFile = NoFile THEN {} ELSE {InstallDirArg}
    /\ resolution = NoResolution
    /\ mdFile \in UserClaudeMds
    /\ profileMd = <<>>
    /\ mdPrev = mdFile
    /\ mdOp = "none"
    /\ mdOrig = NoOrig
    /\ mdClean = TRUE
    /\ settings \in UserSettings
    /\ profilesOnDisk \in {[n \in ProfileDirNames |-> IF n = "profile-b" THEN p ELSE NoProfile] :
                              p \in {NoProfile} \cup {UserProfile(m) : m \in UserProfileMds}}
    /\ pipeLog = <<>>
    /\ pipeRun = NoRun
    /\ pristine = <<Disk>>

(***************************************************************************)
(* The hook scripts the host agent runs: autoupdate, nested-install-       *)
(* warning and summarize-notification, and the installs autoupdate spawns. *)
(***************************************************************************)

\* The version getInstalledVersion assumes when there is no version file
DEFAULT_VERSION == "12.1.0"
Versions == {DEFAULT_VERSION, "13.0.0"}

\* The directories whose version file the hooks and their installs touch
VersionDirs == {<<>>, InstallDirArg}

\* getInstalledVersion({installDir}): the trimmed content of the version
\* file, DEFAULT_VERSION when it is missing or empty
getInstalledVersion(installDir) ==
    LET version == versionFiles[getVersionFilePath(installDir)]
    IN  IF version # <<>> /\ version[1] # "" THEN version[1] ELSE DEFAULT_VERSION

\* getLatestVersion(): null (<<>>) when npm view fails, else its trimmed output
LatestVersions == Opt(Versions \cup {""})

\* spawnInstall({version, installDir, logPath}): the child process
spawnInstall_NoUnref(version, installDir) ==
    [version |-> version, installDir |-> installDir, detached |-> TRUE, unref |-> FALSE]
spawnInstall(version, installDir) ==
    [version |-> version, installDir |-> installDir, detached |-> TRUE, unref |-> TRUE]

\* installUpdate({version}): one spawnInstall per install directory of the
\* disk config, or one for the default directory
installUpdate(version) ==
    LET diskConfig == loadDiskConfig(cfgFile)
        installDirs == IF diskConfig # NullConfig /\ diskConfig.installDirs.tag = "arr"
                          /\ Len(diskConfig.installDirs.dirs) > 0
                       THEN diskConfig.installDirs.dirs ELSE <<>>
    IN  IF installDirs # <<>>
        THEN {spawnInstall(version, <<installDirs[i]>>) : i \in 1..Len(installDirs)}
        ELSE {spawnInstall(version, <<>>)}

\* The record of one run of a hook script: the exit code once the process
\* has ended, what it read, what it spawned, whether it took its error path
\* (the catch-all logged, or the error message was shown), whether it printed
\* its message, and whether the last install before it had failed
HookRun(hook, exit, installed, latest, spawned, logged, message) ==
    [hook |-> hook, exit |-> exit, installed |-> installed, latest |-> latest,
     spawned |-> spawned, logged |-> logged, message |-> message,
     afterFailedInstall |-> pipeRun.cmd = "install" /\ pipeRun.threw]
NoHookRun ==
    [hook |-> "none", exit |-> <<>>, installed |-> <<>>, latest |-> <<>>,
     spawned |-> {}, logged |-> FALSE, message |-> FALSE, afterFailedInstall |-> FALSE]

\* The process ends when nothing keeps its event loop alive: a child that
\* was not unref'd keeps the parent until the child exits
ExitWhenDrained(code, spawned) ==
    IF \A c \in spawned : c.unref THEN <<code>> ELSE <<>>

\* an autoupdate whose body has no catch-all: an exception ends the process
\* with code 1
autoupdateMain_NoCatch(latestVersion, fault) ==
    LET installedVersion == getInstalledVersion(<<>>)
        skip == \/ latestVersion = <<>> \/ latestVersion[1] = ""
                \/ installedVersion = latestVersion[1]
        spawned == IF skip \/ fault = "spawn" THEN {}
                   ELSE installUpdate(latestVersion[1])
        threw == ~skip /\ fault # "none"
    IN  /\ children' = children \cup spawned
        /\ hookRun' = HookRun("autoupdate", IF threw THEN <<1>> ELSE <<0>>,
                              <<installedVersion>>, latestVersion, spawned,
                              FALSE, ~skip /\ ~threw)
        /\ UNCHANGED versionFiles

\* main of autoupdate.ts, run as a script.  fault: where the body throws,
\* "spawn" while the first spawnInstall writes the log header, "notify"
\* while the message is printed after the spawn
HookFaults == {"none", "spawn", "notify"}
autoupdateMain(latestVersion, fault) ==
    LET installedVersion == getInstalledVersion(<<>>)
        skip == \/ latestVersion = <<>> \/ latestVersion[1] = ""
                \/ installedVersion = latestVersion[1]
        spawned == IF skip \/ fault = "spawn" THEN {}
                   ELSE installUpdate(latestVersion[1])
        threw == ~skip /\ fault # "none"
    IN  /\ children' = children \cup spawned
        /\ hookRun' = HookRun("autoupdate", ExitWhenDrained(0, spawned),
                              <<installedVersion>>, latestVersion, spawned,
                              threw, ~skip /\ ~threw)
        /\ UNCHANGED versionFiles

\* main of nested-install-warning.ts, run as a script; fault: the body throws
hookNestedInstallWarning(fault) ==
    /\ IF fault THEN UNCHANGED <<fsCwd, fsMarked, resolution>>
       ELSE nestedInstallWarning
    /\ hookRun' = HookRun("nested-install-warning", <<0>>, <<>>, <<>>, {}, fault,
                          ~fault /\ Len(getInstallDirs(fsCwd, fsMarked)) >= 2)
    /\ UNCHANGED <<children, versionFiles>>

\* main of summarize-notification.ts as its tests fix it: a message on
\* stderr in every case, and exit code 2 when the notification is shown;
\* the tests leave the exit code of the two error cases open
summarizeNotificationMain(configLoads, errorExit) ==
    LET allInstallations == getInstallDirs(fsCwd, fsMarked)
        failed == Len(allInstallations) = 0 \/ ~configLoads
    IN  /\ hookRun' = HookRun("summarize-notification",
                              IF failed THEN <<errorExit>> ELSE <<2>>,
                              <<>>, <<>>, {}, failed, TRUE)
        /\ UNCHANGED <<children, versionFiles>>

\* a spawned install that saves the installed version whatever the loaders did
spawnedInstallRuns_SaveAlways(child) ==
    /\ child \in children
    /\ \/ child.installDir = <<InstallDirArg>>
       \/ child.installDir = <<>> /\ fsCwd = InstallDirArg
    /\ noninteractive(FALSE)
    /\ versionFiles' =
          [versionFiles EXCEPT ![getVersionFilePath(<<InstallDirArg>>)] = <<child.version>>]
    /\ children' = children \ {child}
    /\ hookRun' = hookRun

\* A spawned `npx nori-ai@<version> install --non-interactive` runs: the
\* install into the installation directory, and the version file
\* saveInstalledVersion writes when every loader has run
spawnedInstallRuns(child) ==
    /\ child \in children
    /\ \/ child.installDir = <<InstallDirArg>>
       \/ child.installDir = <<>> /\ fsCwd = InstallDirArg
    /\ noninteractive(FALSE)
    /\ versionFiles' =
          IF pipeRun'.threw THEN versionFiles
          ELSE [versionFiles EXCEPT ![getVersionFilePath(<<InstallDirArg>>)] = <<child.version>>]
    /\ children' = children \ {child}
    /\ hookRun' = IF hookRun.exit = <<>> /\ child \in hookRun.spawned
                     /\ \A c \in hookRun.spawned \ {child} : c.unref \/ c \notin children
                  THEN [hookRun EXCEPT !.exit = <<0>>]
                  ELSE hookRun

HookIdle ==
    /\ versionFiles = [d \in VersionDirs |-> <<>>]
    /\ children = {}
    /\ hookRun = NoHookRun

\* An installation in InstallDirArg that a session is started in or above
HookInit ==
    /\ fsCwd \in VersionDirs
    /\ versionFiles \in [VersionDirs -> Opt(Versions)]
    /\ fsVersioned = {d \in VersionDirs : versionFiles[d] # <<>>}
    /\ cfgFile \in {NoFile} \cup
          {MkFile(<<>>, <<>>, <<>>, prof, <<>>, <<>>, <<>>, DirsArr(<<InstallDirArg>>), <<>>) :
              prof \in Opt({"profile-b"})}
    /\ cfgPrev = cfgFile
    /\ cfgOp = [name |-> "none", arg |-> <<>>]
    /\ fsMarked \in {{InstallDirArg}, {<<>>, InstallDirArg}}
    /\ resolution = NoResolution
    /\ mdFile = AbsentFile
    /\ profileMd = <<>>
    /\ mdPrev = mdFile
    /\ mdOp = "none"
    /\ mdOrig = NoOrig
    /\ mdClean = TRUE
    /\ settings = NoSettings
    /\ profilesOnDisk \in {[n \in ProfileDirNames |-> IF n = "profile-b" THEN p ELSE NoProfile] :
                              p \in {NoProfile, UserProfile(<<"a", "a">>)}}
    /\ pipeLog = <<>>
    /\ pipeRun = NoRun
    /\ pristine = <<Disk>>
    /\ children = {}
    /\ hookRun = NoHookRun

(***************************************************************************)
(* Template substitution.  A text is a sequence of tokens; each of the     *)
(* four placeholders is one token.  A path is the sequence of its          *)
(* components, each standing for a slash and the name, and a component can *)
(* be named like a placeholder or like a replacement pattern.              *)
(***************************************************************************)

Placeholders ==
    <<"{{skills_dir}}", "{{profiles_dir}}", "{{commands_dir}}", "{{install_dir}}">>

\* getNoriProfilesDir({installDir}): <installDir>/.nori/profiles
getNoriProfilesDir(installDir) == installDir \o <<".nori", "profiles">>

\* The path each placeholder stands for, given the .claude directory
PlaceholderValue(placeholder, installDir) ==
    CASE placeholder = "{{skills_dir}}" -> Append(installDir, "skills")
      [] placeholder = "{{profiles_dir}}" -> getNoriProfilesDir(dirname(installDir))
      [] placeholder = "{{commands_dir}}" -> Append(installDir, "commands")
      [] placeholder = "{{install_dir}}" -> dirname(installDir)

\* content.replace(/<placeholder>/g, repl), scanning from position i
RECURSIVE ReplacePlaceholderFrom(_, _, _, _)
ReplacePlaceholderFrom(s, i, placeholder, repl) ==
    IF i > Len(s) THEN <<>>
    ELSE (IF s[i] = placeholder
          THEN ExpandReplacement(repl, <<s[i]>>, SubSeq(s, 1, i - 1),
                                 SubSeq(s, i + 1, Len(s)))
          ELSE <<s[i]>>)
         \o ReplacePlaceholderFrom(s, i + 1, placeholder, repl)

\* The chain of replace calls, the placeholders taken in the given order
RECURSIVE ReplaceInOrder(_, _, _)
ReplaceInOrder(content, installDir, order) ==
    IF order = <<>> THEN content
    ELSE ReplaceInOrder(
             ReplacePlaceholderFrom(content, 1, Head(order),
                                    PlaceholderValue(Head(order), installDir)),
             installDir, Tail(order))

\* substituteTemplatePaths({content, installDir})
substituteTemplatePaths(content, installDir) ==
    ReplaceInOrder(content, installDir, Placeholders)

MaxTemplate == 2
TemplateTokens == {"a"} \cup {Placeholders[i] : i \in 1..Len(Placeholders)}
TemplateContents == SeqsUpTo(TemplateTokens, MaxTemplate)

\* The .claude directories of installations: below /home, below a directory
\* named like a placeholder, below one named $&
ClaudeDirs ==
    {<<"home", ".claude">>, <<"home", "{{install_dir}}", ".claude">>,
     <<"{{commands_dir}}", ".claude">>, <<"home", "$&", ".claude">>}

NoTemplate == [content |-> <<>>, installDir |-> <<>>, result |-> <<>>, done |-> FALSE]

\* A template file is copied into the installation
copyTemplate(content, installDir) ==
    /\ ~template.done
    /\ template' = [content |-> content, installDir |-> installDir,
                    result |-> substituteTemplatePaths(content, installDir),
                    done |-> TRUE]

\* The next file
nextTemplate ==
    /\ template.done
    /\ template' = NoTemplate

TplIdle == template = NoTemplate

(***************************************************************************)
(* Listing the profiles.  A name is the sequence of its parts, the leading *)
(* underscore of a mixin directory being a part of its own.                *)
(***************************************************************************)

EntryNames == {<<"senior-swe">>, <<"_", "base">>}

\* What a directory can hold under a name: nothing, a file, or a directory
\* with or without CLAUDE.md and profile.json
EntryKinds == {"absent", "file", "dir", "dirClaudeMd", "dirProfileJson", "dirBoth"}

isDirectory(kind) == kind \in {"dir", "dirClaudeMd", "dirProfileJson", "dirBoth"}
hasClaudeMd(kind) == kind \in {"dirClaudeMd", "dirBoth"}
hasProfileJson(kind) == kind \in {"dirProfileJson", "dirBoth"}

\* entry.name.startsWith("_")
startsWithUnderscore(name) == name # <<>> /\ name[1] = "_"

\* readdir(dir): the names of the entries
readdir(dir) == {n \in EntryNames : dir[n] # "absent"}

\* listProfiles: the directories of the installed profiles directory that
\* contain CLAUDE.md
listProfiles ==
    LET entries == readdir(profileTree.installed)
    IN  /\ listing' = [cmd |-> "listProfiles", threw |-> FALSE,
                       names |-> {n \in entries :
                                     /\ isDirectory(profileTree.installed[n])
                                     /\ hasClaudeMd(profileTree.installed[n])}]
        /\ UNCHANGED profileTree

\* getAvailableProfiles: the built-in profiles of the package and the
\* user-defined profiles of the installed profiles directory
getAvailableProfiles ==
    LET sourceEntries == readdir(profileTree.source)
        builtInNames == {n \in sourceEntries :
                            /\ isDirectory(profileTree.source[n])
                            /\ ~startsWithUnderscore(n)}
        installedEntries == readdir(profileTree.installed)
        userDefined == {n \in installedEntries :
                           /\ isDirectory(profileTree.installed[n])
                           /\ n \notin builtInNames
                           /\ hasProfileJson(profileTree.installed[n])}
    IN  /\ listing' =
              IF \E n \in builtInNames : ~hasProfileJson(profileTree.source[n])
              THEN [cmd |-> "getAvailableProfiles", threw |-> TRUE, names |-> {}]
              ELSE [cmd |-> "getAvailableProfiles", threw |-> FALSE,
                    names |-> builtInNames \cup userDefined]
        /\ UNCHANGED profileTree

NoListing == [cmd |-> "none", threw |-> FALSE, names |-> {}]

ListIdle ==
    /\ profileTree = [source |-> [n \in EntryNames |-> "absent"],
                      installed |-> [n \in EntryNames |-> "absent"]]
    /\ listing = NoListing

ListInit ==
    /\ profileTree \in [source : [EntryNames -> EntryKinds],
                         installed : [EntryNames -> EntryKinds]]
    /\ listing = NoListing

(***************************************************************************)
(* Registry resolution: registry-download (CLI command and slash command)  *)
(* and registry-search.                                                    *)
(***************************************************************************)

PROFILE_REGISTRY_URL == <<"https://registrar.tilework.tech">>

\* The registry servers, each named by its normalized base URL
Registries == {PROFILE_REGISTRY_URL, <<"https://r1">>, <<"https://r2">>}

\* The registry URLs as a user may write them in the config or on the command line
RegistryUrls ==
    Registries \cup {PROFILE_REGISTRY_URL \o <<"/">>, <<"https://r1", "/">>}

RegistryAuthOf(url) == [username |-> "bob", password |-> "s3", registryUrl |-> url]

MaxAuths == 2

\* registryAuths lists: entries are keyed by registry URL
RegistryAuthsLists ==
    {l \in SeqsUpTo({RegistryAuthOf(u) : u \in RegistryUrls}, MaxAuths) :
        \A i, j \in 1..Len(l) :
            i # j => normalizeUrl(l[i].registryUrl) # normalizeUrl(l[j].registryUrl)}

NullRegConfig == [isNull |-> TRUE, registryAuths |-> <<>>]

\* getRegistryAuthToken({registryAuth}): <<token>>, or <<>> when it throws
getRegistryAuthToken(registryAuth, tokenFails) ==
    IF normalizeUrl(registryAuth.registryUrl) \in tokenFails THEN <<>>
    ELSE <<[user |-> registryAuth.username, registry |-> normalizeUrl(registryAuth.registryUrl)]>>

\* profileRegistryApi.getProfileMetadata: <<metadata>>, or <<>> when it throws
getProfileMetadata(registryUrl, status) ==
    IF status[normalizeUrl(registryUrl)] = "hit"
    THEN <<[name |-> "my-profile", registry |-> normalizeUrl(registryUrl)]>>
    ELSE <<>>

\* getRegistryAuth({config, registryUrl}): the entry for the registry, or <<>>
getRegistryAuth(config, registryUrl) ==
    LET found == {i \in 1..Len(config.registryAuths) :
                     normalizeUrl(config.registryAuths[i].registryUrl) = normalizeUrl(registryUrl)}
    IN  IF found = {} THEN <<>>
        ELSE <<config.registryAuths[CHOOSE i \in found : \A j \in found : i <= j]>>

Query(url, auth) == [url |-> url, auth |-> auth]
SearchResult(url, token) == [registryUrl |-> url, authToken |-> token]
Searched(results, queried) == [results |-> results, queried |-> queried]

\* The loop of searchAllRegistries, were a failing registry to end the search
RECURSIVE searchPrivateRegistries_StopAtFailure(_, _, _, _)
searchPrivateRegistries_StopAtFailure(auths, i, status, tokenFails) ==
    IF i > Len(auths) THEN Searched(<<>>, <<>>)
    ELSE LET registryAuth == auths[i]
             authToken == getRegistryAuthToken(registryAuth, tokenFails)
             md == IF authToken = <<>> THEN <<>>
                   ELSE getProfileMetadata(registryAuth.registryUrl, status)
             rest == searchPrivateRegistries_StopAtFailure(auths, i + 1, status, tokenFails)
         IN  IF md = <<>>
             THEN Searched(<<>>, IF authToken # <<>>
                                 THEN <<Query(registryAuth.registryUrl, TRUE)>> ELSE <<>>)
             ELSE Searched(<<SearchResult(registryAuth.registryUrl, authToken)>> \o rest.results,
                           <<Query(registryAuth.registryUrl, TRUE)>> \o rest.queried)

\* The loop of searchAllRegistries over config.registryAuths, from entry i
RECURSIVE searchPrivateRegistries(_, _, _, _)
searchPrivateRegistries(auths, i, status, tokenFails) ==
    IF i > Len(auths) THEN Searched(<<>>, <<>>)
    ELSE LET registryAuth == auths[i]
             authToken == getRegistryAuthToken(registryAuth, tokenFails)
             md == IF authToken = <<>> THEN <<>>
                   ELSE getProfileMetadata(registryAuth.registryUrl, status)
             rest == searchPrivateRegistries(auths, i + 1, status, tokenFails)
         IN  Searched(
               (IF md # <<>> THEN <<SearchResult(registryAuth.registryUrl, authToken)>>
                ELSE <<>>) \o rest.results,
               (IF authToken # <<>> THEN <<Query(registryAuth.registryUrl, TRUE)>>
                ELSE <<>>) \o rest.queried)

\* searchAllRegistries of registry-download
searchAllRegistries(config, status, tokenFails) ==
    LET pub == getProfileMetadata(PROFILE_REGISTRY_URL, status)
        priv == searchPrivateRegistries(config.registryAuths, 1, status, tokenFails)
    IN  Searched(
          (IF pub # <<>> THEN <<SearchResult(PROFILE_REGISTRY_URL, <<>>)>> ELSE <<>>)
              \o priv.results,
          <<Query(PROFILE_REGISTRY_URL, FALSE)>> \o priv.queried)

\* searchSpecificRegistry without the branch for the public registry
searchSpecificRegistry_AuthOnly(registryUrl, config, status, tokenFails) ==
    IF config.isNull THEN Searched(<<>>, <<>>)
    ELSE LET registryAuth == getRegistryAuth(config, registryUrl)
         IN  IF registryAuth = <<>> THEN Searched(<<>>, <<>>)
             ELSE LET authToken == getRegistryAuthToken(registryAuth[1], tokenFails)
                  IN  IF authToken = <<>> THEN Searched(<<>>, <<>>)
                      ELSE Searched(IF getProfileMetadata(registryUrl, status) # <<>>
                                    THEN <<SearchResult(registryUrl, authToken)>> ELSE <<>>,
                                    <<Query(registryUrl, TRUE)>>)

\* searchSpecificRegistry of the registry-download CLI command
searchSpecificRegistry(registryUrl, config, status, tokenFails) ==
    IF registryUrl = PROFILE_REGISTRY_URL
    THEN Searched(IF getProfileMetadata(PROFILE_REGISTRY_URL, status) # <<>>
                  THEN <<SearchResult(PROFILE_REGISTRY_URL, <<>>)>> ELSE <<>>,
                  <<Query(PROFILE_REGISTRY_URL, FALSE)>>)
    ELSE IF config.isNull THEN Searched(<<>>, <<>>)
    ELSE LET registryAuth == getRegistryAuth(config, registryUrl)
         IN  IF registryAuth = <<>> THEN Searched(<<>>, <<>>)
             ELSE LET authToken == getRegistryAuthToken(registryAuth[1], tokenFails)
                  IN  IF authToken = <<>> THEN Searched(<<>>, <<>>)
                      ELSE Searched(IF getProfileMetadata(registryUrl, status) # <<>>
                                    THEN <<SearchResult(registryUrl, authToken)>> ELSE <<>>,
                                    <<Query(registryUrl, TRUE)>>)

\* searchSpecificRegistry of the /nori-registry-download slash command: a
\* registry without configured auth is tried without a token
hookSearchSpecificRegistry(registryUrl, config, status, tokenFails) ==
    LET unauthenticated ==
            Searched(IF getProfileMetadata(registryUrl, status) # <<>>
                     THEN <<SearchResult(registryUrl, <<>>)>> ELSE <<>>,
                     <<Query(registryUrl, FALSE)>>)
    IN  IF registryUrl = PROFILE_REGISTRY_URL THEN unauthenticated
        ELSE IF config.isNull THEN unauthenticated
        ELSE LET registryAuth == getRegistryAuth(config, registryUrl)
             IN  IF registryAuth = <<>> THEN unauthenticated
                 ELSE LET authToken == getRegistryAuthToken(registryAuth[1], tokenFails)
                      IN  IF authToken = <<>> THEN Searched(<<>>, <<>>)
                          ELSE Searched(IF getProfileMetadata(registryUrl, status) # <<>>
                                        THEN <<SearchResult(registryUrl, authToken)>> ELSE <<>>,
                                        <<Query(registryUrl, TRUE)>>)

\* One registry's entry in the results of registry-search
SearchEntry(url, found, failed) == [registryUrl |-> url, found |-> found, failed |-> failed]

\* profileRegistryApi.searchProfilesOnRegistry: "hit" lists the profile,
\* "miss" answers an empty list, "error" throws
searchProfilesOnRegistry(registryUrl, status) ==
    SearchEntry(registryUrl, status[normalizeUrl(registryUrl)] = "hit",
                status[normalizeUrl(registryUrl)] = "error")

\* The loop of registry-search over config.registryAuths, from entry i
RECURSIVE searchPrivateQuery(_, _, _, _, _)
searchPrivateQuery(auths, i, searchedRegistries, status, tokenFails) ==
    IF i > Len(auths) THEN Searched(<<>>, <<>>)
    ELSE LET registryAuth == auths[i]
             normalizedRegistryUrl == normalizeUrl(registryAuth.registryUrl)
         IN  IF normalizedRegistryUrl \in searchedRegistries
             THEN searchPrivateQuery(auths, i + 1, searchedRegistries, status, tokenFails)
             ELSE LET authToken == getRegistryAuthToken(registryAuth, tokenFails)
                      entry == IF authToken = <<>>
                               THEN SearchEntry(registryAuth.registryUrl, FALSE, TRUE)
                               ELSE searchProfilesOnRegistry(registryAuth.registryUrl, status)
                      rest == searchPrivateQuery(auths, i + 1,
                                  searchedRegistries \cup {normalizedRegistryUrl},
                                  status, tokenFails)
                  IN  Searched(<<entry>> \o rest.results,
                               (IF authToken # <<>>
                                THEN <<Query(registryAuth.registryUrl, TRUE)>>
                                ELSE <<>>) \o rest.queried)

\* searchAllRegistries of registry-search
registrySearchAll(config, status, tokenFails) ==
    LET normalizedPublicUrl == normalizeUrl(PROFILE_REGISTRY_URL)
        priv == searchPrivateQuery(config.registryAuths, 1, {normalizedPublicUrl},
                                   status, tokenFails)
    IN  Searched(<<searchProfilesOnRegistry(PROFILE_REGISTRY_URL, status)>> \o priv.results,
                 <<Query(PROFILE_REGISTRY_URL, FALSE)>> \o priv.queried)

NoTarball == [requested |-> FALSE, from |-> <<>>, authToken |-> <<>>]
TarballFrom(result) ==
    [requested |-> TRUE, from |-> result.registryUrl, authToken |-> result.authToken]

\* formatMultipleProfilesError: the registries the ambiguity error lists
ListedRegistries(results) == [i \in 1..Len(results) |-> results[i].registryUrl]

NoSummary == [cmd |-> "none", registryUrl |-> <<>>, outcome |-> "none", listed |-> <<>>]

\* What the next command remembers of this one: the registries an ambiguity
\* error has just listed to the user
Summary ==
    IF regOutcome = "ambiguous"
    THEN [cmd |-> regOp.cmd, registryUrl |-> regOp.registryUrl,
          outcome |-> regOutcome, listed |-> ListedRegistries(regResults)]
    ELSE NoSummary

TarballOutcomes == {"ok", "downloadError", "extractError"}

\* The download without the removal of the target directory after a failed
\* extraction
DownloadSteps_NoCleanup(tarball) ==
    IF tarball = "downloadError" THEN <<"downloadTarball:throw">>
    ELSE IF tarball = "extractError"
    THEN <<"downloadTarball", "mkdir", "extractTarball:throw">>
    ELSE <<"downloadTarball", "mkdir", "extractTarball">>

\* What the try block after the tie-break does, in order: downloadTarball,
\* then mkdir of the target directory, then extractTarball, and rm of the
\* target directory when extractTarball throws
DownloadSteps(tarball) ==
    IF tarball = "downloadError" THEN <<"downloadTarball:throw">>
    ELSE IF tarball = "extractError"
    THEN <<"downloadTarball", "mkdir", "extractTarball:throw", "rm">>
    ELSE <<"downloadTarball", "mkdir", "extractTarball">>

\* The target directory after the steps: mkdir creates it, rm removes it
RECURSIVE DirAfter(_, _)
DirAfter(steps, dir) ==
    IF steps = <<>> THEN dir
    ELSE DirAfter(Tail(steps),
                  IF Head(steps) = "mkdir" THEN "present"
                  ELSE IF Head(steps) = "rm" THEN "absent" ELSE dir)

\* The course of the download commands without the check of the target
\* directory
DownloadWith_NoExistsCheck(cmd, registryUrl, noAuth, searched, tarball) ==
    /\ regPrev' = Summary
    /\ regOp' = [cmd |-> cmd, registryUrl |-> registryUrl]
    /\ UNCHANGED <<regConfig, regStatus, regTokenFails>>
    /\ IF noAuth
       THEN /\ regOutcome' = "noAuth"
            /\ regQueried' = <<>> /\ regResults' = <<>> /\ regTarball' = NoTarball
            /\ regSteps' = <<>>
            /\ UNCHANGED profileDir
       ELSE /\ regQueried' = searched.queried
            /\ regResults' = searched.results
            /\ IF Len(searched.results) = 0
               THEN /\ regOutcome' = "notFound" /\ regTarball' = NoTarball
                    /\ regSteps' = <<>> /\ UNCHANGED profileDir
               ELSE IF Len(searched.results) > 1
               THEN /\ regOutcome' = "ambiguous" /\ regTarball' = NoTarball
                    /\ regSteps' = <<>> /\ UNCHANGED profileDir
               ELSE /\ regTarball' = TarballFrom(searched.results[1])
                    /\ regOutcome' = IF tarball = "ok" THEN "downloaded" ELSE "failed"
                    /\ regSteps' = DownloadSteps(tarball)
                    /\ profileDir' = DirAfter(DownloadSteps(tarball), profileDir)

\* The common course of both download commands once the search is chosen:
\* the existing-directory check, the tie-break and the download.
DownloadWith(cmd, registryUrl, noAuth, searched, tarball) ==
    /\ regPrev' = Summary
    /\ regOp' = [cmd |-> cmd, registryUrl |-> registryUrl]
    /\ UNCHANGED <<regConfig, regStatus, regTokenFails>>
    /\ IF profileDir = "present"
       THEN /\ regOutcome' = "alreadyExists"
            /\ regQueried' = <<>> /\ regResults' = <<>> /\ regTarball' = NoTarball
            /\ regSteps' = <<>>
            /\ UNCHANGED profileDir
       ELSE IF noAuth
       THEN /\ regOutcome' = "noAuth"
            /\ regQueried' = <<>> /\ regResults' = <<>> /\ regTarball' = NoTarball
            /\ regSteps' = <<>>
            /\ UNCHANGED profileDir
       ELSE /\ regQueried' = searched.queried
            /\ regResults' = searched.results
            /\ IF Len(searched.results) = 0
               THEN /\ regOutcome' = "notFound" /\ regTarball' = NoTarball
                    /\ regSteps' = <<>> /\ UNCHANGED profileDir
               ELSE IF Len(searched.results) > 1
               THEN /\ regOutcome' = "ambiguous" /\ regTarball' = NoTarball
                    /\ regSteps' = <<>> /\ UNCHANGED profileDir
               ELSE /\ regTarball' = TarballFrom(searched.results[1])
                    /\ regOutcome' = IF tarball = "ok" THEN "downloaded" ELSE "failed"
                    /\ regSteps' = DownloadSteps(tarball)
                    /\ profileDir' = DirAfter(DownloadSteps(tarball), profileDir)

\* The reg variables of a download command that ends before the search
\* because it has no installation to act on
StopUnresolved(cmd, registryUrl, kind) ==
    /\ regPrev' = Summary
    /\ regOp' = [cmd |-> cmd, registryUrl |-> registryUrl]
    /\ regOutcome' = kind
    /\ regQueried' = <<>> /\ regResults' = <<>> /\ regTarball' = NoTarball
    /\ regSteps' = <<>>
    /\ UNCHANGED <<regConfig, regStatus, regTokenFails, profileDir>>

\* registryDownloadMain after the installation is resolved
registryDownloadInto(registryUrl, tarball) ==
    DownloadWith("registryDownload", registryUrl,
        /\ registryUrl # <<>>
        /\ registryUrl[1] # PROFILE_REGISTRY_URL
        /\ (regConfig.isNull \/ getRegistryAuth(regConfig, registryUrl[1]) = <<>>),
        IF registryUrl # <<>>
        THEN searchSpecificRegistry(registryUrl[1], regConfig, regStatus, regTokenFails)
        ELSE searchAllRegistries(regConfig, regStatus, regTokenFails),
        tarball)

\* registryDownloadMain:
\* nori-ai registry-download <profile> [--registry <url>] [--install-dir <dir>]
registryDownloadMain(registryUrl, installDir, tarball) ==
    LET res == IF installDir # <<>>
               THEN Resolved("registryDownload", "given", <<>>, installDir, <<>>)
               ELSE ResolveOrBlock("registryDownload")
    IN  /\ resolution' = res
        /\ UNCHANGED <<fsCwd, fsMarked>>
        /\ IF res.kind \in {"noInstallation", "blocked"}
           THEN StopUnresolved("registryDownload", registryUrl, res.kind)
           ELSE registryDownloadInto(registryUrl, tarball)

\* run of noriRegistryDownload: /nori-registry-download <profile> [registry-url]
noriRegistryDownload(registryUrl, tarball) ==
    LET res == ResolveOrBlock("noriRegistryDownload")
    IN  /\ resolution' = res
        /\ UNCHANGED <<fsCwd, fsMarked>>
        /\ IF res.kind \in {"noInstallation", "blocked"}
           THEN StopUnresolved("noriRegistryDownload", registryUrl, res.kind)
           ELSE DownloadWith("noriRegistryDownload", registryUrl, FALSE,
                    IF registryUrl # <<>>
                    THEN hookSearchSpecificRegistry(registryUrl[1], regConfig, regStatus,
                                                    regTokenFails)
                    ELSE searchAllRegistries(regConfig, regStatus, regTokenFails),
                    tarball)

\* registrySearchMain: nori-ai registry-search <query>
registrySearchMain ==
    LET searched == registrySearchAll(regConfig, regStatus, regTokenFails)
    IN  /\ regPrev' = Summary
        /\ regOp' = [cmd |-> "registrySearch", registryUrl |-> <<>>]
        /\ regQueried' = searched.queried
        /\ regResults' = searched.results
        /\ regOutcome' =
              IF \E i \in 1..Len(searched.results) : searched.results[i].found
              THEN "listed"
              ELSE IF \A i \in 1..Len(searched.results) : searched.results[i].failed
                   THEN "searchFailed" ELSE "noProfiles"
        /\ regTarball' = NoTarball
        /\ regSteps' = <<>>
        /\ UNCHANGED <<regConfig, regStatus, regTokenFails, profileDir>>

\* The user removes the downloaded profile directory
removeProfileDir ==
    /\ profileDir = "present"
    /\ profileDir' = "absent"
    /\ UNCHANGED <<regConfig, regStatus, regTokenFails, regOp, regQueried, regResults,
                   regOutcome, regTarball, regSteps, regPrev>>

RegIdle ==
    /\ regConfig = NullRegConfig
    /\ regStatus = [r \in Registries |-> "miss"]
    /\ regTokenFails = {}
    /\ profileDir = "absent"
    /\ regOp = [cmd |-> "none", registryUrl |-> <<>>]
    /\ regQueried = <<>>
    /\ regResults = <<>>
    /\ regOutcome = "none"
    /\ regTarball = NoTarball
    /\ regSteps = <<>>
    /\ regPrev = NoSummary

RegInit ==
    /\ regConfig \in {NullRegConfig} \cup
                     {[isNull |-> FALSE, registryAuths |-> l] : l \in RegistryAuthsLists}
    /\ regStatus \in [Registries -> {"hit", "miss", "error"}]
    /\ regTokenFails \in SUBSET {<<"https://r1">>}
    /\ profileDir = "absent"
    /\ regOp = [cmd |-> "none", registryUrl |-> <<>>]
    /\ regQueried = <<>>
    /\ regResults = <<>>
    /\ regOutcome = "none"
    /\ regTarball = NoTarball
    /\ regSteps = <<>>
    /\ regPrev = NoSummary

(***************************************************************************)
(* Properties of registry resolution                                       *)
(***************************************************************************)

DownloadCommands == {"registryDownload", "noriRegistryDownload"}

\* The last command was a download that searched all registries
SearchAllDownload ==
    /\ regOp.cmd \in DownloadCommands
    /\ regOp.registryUrl = <<>>
    /\ regOutcome \notin {"alreadyExists", "noInstallation", "blocked"}

\* The registries that returned the profile
ReturnedBy(results) == {normalizeUrl(results[i].registryUrl) : i \in 1..Len(results)}

\* C7: after a download without a registry argument the outcome follows the
\* number of registries that returned the profile: none gives the not-found
\* error and no download, exactly one gives a download from that registry
\* with its token, more than one gives the ambiguity error listing every
\* such registry and no download.
C7_TieBreakByRegistryCount ==
    SearchAllDownload =>
        LET hits == ReturnedBy(regResults)
        IN  /\ Cardinality(hits) = 0 =>
                  regOutcome = "notFound" /\ ~regTarball.requested /\ profileDir = "absent"
            /\ Cardinality(hits) = 1 =>
                  /\ regOutcome \in {"downloaded", "failed"}
                  /\ regTarball.requested
                  /\ normalizeUrl(regTarball.from) \in hits
                  /\ regTarball.authToken = regResults[1].authToken
            /\ Cardinality(hits) > 1 =>
                  /\ regOutcome = "ambiguous"
                  /\ ~regTarball.requested /\ profileDir = "absent"
                  /\ hits = {normalizeUrl(u) : u \in
                                {ListedRegistries(regResults)[i] : i \in 1..Len(regResults)}}

\* The last command repeats the preceding, ambiguous download with one of
\* the registries its error listed
ReissuedWithListedRegistry ==
    /\ regPrev.outcome = "ambiguous"
    /\ regPrev.registryUrl = <<>>
    /\ regOp.cmd = regPrev.cmd
    /\ regOp.registryUrl # <<>>
    /\ Contains(regPrev.listed, regOp.registryUrl[1])

\* C8: when a download that ended in the ambiguity error is issued again
\* with the registry argument set to one of the listed URLs, exactly that
\* registry is selected and the tarball is requested from it.
C8_ListedRegistryIsSelected ==
    ReissuedWithListedRegistry =>
        /\ Len(regResults) = 1
        /\ regResults[1].registryUrl = regOp.registryUrl[1]
        /\ regOutcome \in {"downloaded", "failed"}
        /\ regTarball.requested
        /\ regTarball.from = regOp.registryUrl[1]
        /\ regTarball.authToken = regResults[1].authToken

C8_Witness ==
    /\ ReissuedWithListedRegistry
    /\ regOp.registryUrl[1] # PROFILE_REGISTRY_URL
    /\ regOutcome = "downloaded"
    /\ regTarball.from = regOp.registryUrl[1]
    /\ regTarball.authToken # <<>>

\* Position of a step in the steps of the last command, 0 when it is not there
StepIndex(step) ==
    IF Contains(regSteps, step)
    THEN CHOOSE i \in 1..Len(regSteps) : regSteps[i] = step
    ELSE 0

\* C11: a download command creates the target directory only after
\* downloadTarball has returned, a failed extraction is followed by the
\* removal of the target directory, and a command that did not end with the
\* profile downloaded leaves no target directory.
C11_NoOrphanedTargetDir ==
    regOp.cmd \in DownloadCommands =>
        /\ Contains(regSteps, "mkdir") =>
              /\ regTarball.requested
              /\ StepIndex("downloadTarball") > 0
              /\ StepIndex("downloadTarball") < StepIndex("mkdir")
        /\ Contains(regSteps, "downloadTarball:throw") => ~Contains(regSteps, "mkdir")
        /\ Contains(regSteps, "extractTarball:throw") =>
              StepIndex("rm") > StepIndex("extractTarball:throw")
        /\ regOutcome \in {"failed", "notFound", "ambiguous", "noAuth"} =>
              profileDir = "absent"

C11_WitnessExtractFailed ==
    /\ regOp.cmd \in DownloadCommands
    /\ regOutcome = "failed"
    /\ Contains(regSteps, "mkdir")
    /\ Contains(regSteps, "extractTarball:throw")
    /\ profileDir = "absent"

\* The registry URLs a search over all registries has to cover
ConfiguredUrls ==
    {PROFILE_REGISTRY_URL} \cup
        {regConfig.registryAuths[i].registryUrl : i \in 1..Len(regConfig.registryAuths)}

\* The registry at url answers a query with the profile
Serves(url) ==
    /\ regStatus[normalizeUrl(url)] = "hit"
    /\ url # PROFILE_REGISTRY_URL => normalizeUrl(url) \notin regTokenFails

\* C9: in a search over all registries a failing registry contributes
\* nothing and stops nothing: every registry whose token could be obtained
\* is queried, and the results are exactly those of the registries that
\* answered with the profile.
C9_FailuresAreIsolated ==
    /\ SearchAllDownload =>
          /\ {regResults[i].registryUrl : i \in 1..Len(regResults)}
                = {u \in ConfiguredUrls : Serves(u)}
          /\ {regQueried[i].url : i \in 1..Len(regQueried)}
                = {u \in ConfiguredUrls :
                      u = PROFILE_REGISTRY_URL \/ normalizeUrl(u) \notin regTokenFails}
    /\ regOp.cmd = "registrySearch" =>
          /\ {normalizeUrl(regResults[i].registryUrl) :
                  i \in {j \in 1..Len(regResults) : regResults[j].found}}
                = {r \in {normalizeUrl(u) : u \in ConfiguredUrls} :
                      /\ regStatus[r] = "hit"
                      /\ r # PROFILE_REGISTRY_URL => r \notin regTokenFails}
          /\ {normalizeUrl(regQueried[i].url) : i \in 1..Len(regQueried)}
                = {r \in {normalizeUrl(u) : u \in ConfiguredUrls} :
                      r = PROFILE_REGISTRY_URL \/ r \notin regTokenFails}

C9_Witness ==
    /\ SearchAllDownload
    /\ Len(regConfig.registryAuths) = 2
    /\ ~Serves(regConfig.registryAuths[1].registryUrl)
    /\ regStatus[PROFILE_REGISTRY_URL] = "error"
    /\ Len(regResults) = 1
    /\ regResults[1].registryUrl = regConfig.registryAuths[2].registryUrl
    /\ regOutcome = "downloaded"

\* C10: a search over all registries sends no two queries to the same
\* registry, registries being compared by normalized URL.
C10_NoRegistryQueriedTwice ==
    (SearchAllDownload \/ regOp.cmd = "registrySearch") =>
        \A i, j \in 1..Len(regQueried) :
            i # j => normalizeUrl(regQueried[i].url) # normalizeUrl(regQueried[j].url)

(***************************************************************************)
(* Properties of installation discovery                                    *)
(***************************************************************************)

\* The commands that resolve their installation from the working directory
ResolvingCommands == {"registryDownload", "noriRegistryDownload", "cursorNoriSwitchProfile"}

\* C12: a command that resolves its installation from the working directory
\* fails with the no-installation error when getInstallDirs finds none, goes
\* on with the installation when it finds exactly one, and blocks, listing
\* all of them, when it finds more than one; the session-start nesting
\* warning never blocks.
C12_ActsOnInstallationCount ==
    /\ (resolution.cmd \in ResolvingCommands /\ resolution.kind # "given") =>
          LET all == getInstallDirs(resolution.currentDir, resolution.marked)
          IN  /\ Len(all) = 0 => resolution.kind = "noInstallation"
              /\ Len(all) = 1 => /\ resolution.kind = "proceed"
                                 /\ resolution.installDir = <<all[1]>>
              /\ Len(all) > 1 => /\ resolution.kind = "blocked"
                                 /\ resolution.listed = all
    /\ resolution.cmd = "nestedInstallWarning" => resolution.kind \in {"silent", "warned"}

\* currentDir and the directories above it, the root included
Ancestors(dir) == {SubSeq(dir, 1, k) : k \in 0..Len(dir)}

C14_ExistingIffMarkerAtInstallDir ==
    pipeRun.cmd = "install" =>
        (pipeRun.existing <=>
            \/ pipeRun.installDir[1] \in pipeRun.marked
            \/ pipeRun.installDir[1] \in pipeRun.versioned)

IsRun(e) == e.op = "run"
IsUninstall(e) == e.op = "uninstall"

\* The events of calling op on each of loaders, one after the other
RECURSIVE Calls(_, _)
Calls(op, loaders) ==
    IF loaders = <<>> THEN <<>>
    ELSE <<Event(op, Head(loaders), "start"), Event(op, Head(loaders), "end")>>
         \o Calls(op, Tail(loaders))

\* The loaders in the reverse of registration order
ReverseRegistered == [i \in 1..Len(Registered) |-> Registered[Len(Registered) + 1 - i]]

\* The last command ran the uninstall pipeline
Uninstalled ==
    \/ pipeRun.cmd = "uninstall"
    \/ pipeRun.cmd = "install" /\ pipeRun.existing /\ ~pipeRun.skipUninstall

\* C15: an install that completes has called run on every registered loader
\* in registration order, each call ending before the next starts (one that
\* fails has done so up to the loader that raised); an uninstall has called
\* uninstall on the same loaders in exactly the reverse order.
C15_ForwardThenReverse ==
    LET runs == SelectSeq(pipeLog, IsRun)
        uninstalls == SelectSeq(pipeLog, IsUninstall)
    IN  /\ (pipeRun.cmd = "install" /\ ~pipeRun.threw) => runs = Calls("run", Registered)
        /\ (pipeRun.cmd = "install" /\ pipeRun.threw) =>
              \E k \in 1..Len(Registered) :
                  runs = Calls("run", SubSeq(Registered, 1, k - 1))
                         \o <<Event("run", Registered[k], "start"),
                              Event("run", Registered[k], "throw")>>
        /\ Uninstalled => uninstalls = Calls("uninstall", ReverseRegistered)
        /\ ~Uninstalled => uninstalls = <<>>
        /\ pipeLog = uninstalls \o runs

C15_Witness ==
    /\ pipeRun.cmd = "install" /\ pipeRun.existing /\ ~pipeRun.skipUninstall
    /\ ~pipeRun.threw
    /\ Len(pipeLog) = 4 * Len(Registered)

\* C16: an uninstall completes, every loader's uninstall having ended, whatever
\* is there; a loader whose artifact is absent (no CLAUDE.md, no managed
\* block in it, no settings.json, no statusLine and no grant in it, no
\* built-in profile directory) leaves it as it was, and an uninstall that
\* follows an uninstall changes nothing.
C16_UninstallToleratesAbsence ==
    pipeRun.cmd = "uninstall" =>
        LET before == pipeRun.before[1]
        IN  /\ ~pipeRun.threw
            /\ pipeLog = Calls("uninstall", ReverseRegistered)
            /\ ~before.md.exists => mdFile = before.md
            /\ (before.md.exists /\ ~Contains(before.md.content, BEGIN_MARKER))
                  => mdFile = before.md
            /\ ~before.settings.exists => settings = before.settings
            /\ (before.settings.statusLine = "none" /\ "profilesDir" \notin before.settings.dirs)
                  => settings = before.settings
            /\ (\A n \in ProfileDirNames : ~before.profiles[n].builtin)
                  => profilesOnDisk = before.profiles
            /\ pipeRun.prev = "uninstall" => Disk = before

C16_Witness ==
    /\ pipeRun.cmd = "uninstall" /\ pipeRun.prev = "none"
    /\ ~pipeRun.before[1].md.exists
    /\ ~pipeRun.before[1].settings.exists
    /\ \A n \in ProfileDirNames : ~pipeRun.before[1].profiles[n].exists
    /\ Disk = pipeRun.before[1]

\* What an uninstall may take away and what it must leave, given the
\* artifacts before it: the built-in profile directories and the grant of the
\* profiles directory are gone; the profile directories a user created, the
\* user's own entries of settings.json and the content of CLAUDE.md outside
\* the managed block are as before (a file left with whitespace only is
\* deleted)
RemovedOnlyOwn(before) ==
    /\ \A n \in ProfileDirNames :
          IF before.profiles[n].builtin THEN profilesOnDisk[n] = NoProfile
          ELSE profilesOnDisk[n] = before.profiles[n]
    /\ settings.exists = before.settings.exists
    /\ settings.schema = before.settings.schema
    /\ settings.dirs = before.settings.dirs \ {"profilesDir"}
    /\ (before.md.exists /\ ExactlyOneBlock(before.md.content)) =>
          IF TrimIsEmpty(Outside(before.md.content)) THEN mdFile = AbsentFile
          ELSE mdFile = FileOf(Outside(before.md.content))
    /\ (before.md.exists /\ ~Contains(before.md.content, BEGIN_MARKER)) =>
          mdFile = before.md

\* C17: an uninstall removes only what the installer put in place: the
\* built-in profiles and the permission entry of the profiles directory are
\* removed, while the profiles a user created, the user's own settings and
\* the user's content outside the managed block remain.
C17_UninstallRemovesOnlyOwn ==
    pipeRun.cmd = "uninstall" =>
        /\ RemovedOnlyOwn(pipeRun.before[1])
        /\ pipeRun.before[1].settings.statusLine = "user" => settings.statusLine = "user"

\* The artifacts a single install of config leaves when it starts from disk
FreshInstall(disk, config) == RunAll(getAll(Registered), disk, config, <<>>).disk

\* The last command was an install over an existing installation: it ran the
\* uninstall pipeline and then every loader
Reinstalled ==
    /\ pipeRun.cmd = "install" /\ pipeRun.existing /\ ~pipeRun.skipUninstall
    /\ ~pipeRun.threw

\* C18 (as stated): an install over an existing installation leaves the
\* artifacts exactly as a single fresh install of the same configuration
\* leaves them when it starts from what the user had before any install.
C18_ReinstallEqualsFresh ==
    Reinstalled => Disk = FreshInstall(pristine[1], pipeRun.config)

\* CLAUDE.md holds text, but whitespace only
WhitespaceOnly(file) ==
    file.exists /\ file.content # <<>> /\ TrimIsEmpty(file.content)

\* C18 (amended): an install over an existing installation leaves the profiles
\* directory and settings.json exactly as a single fresh install of the same
\* configuration leaves them, and CLAUDE.md too unless the user's CLAUDE.md
\* held whitespace only or instructions installed before held a newline
\* directly followed by the END sentinel.
C18_ReinstallEqualsFreshUnlessBlank ==
    Reinstalled =>
        LET fresh == FreshInstall(pristine[1], pipeRun.config)
        IN  /\ profilesOnDisk = fresh.profiles
            /\ settings = fresh.settings
            /\ (~WhitespaceOnly(pristine[1].md) /\ ~pipeRun.hadEndLine)
                  => mdFile = fresh.md

C18_Witness ==
    /\ Reinstalled /\ pipeRun.prev = "install"
    /\ Contains(pipeRun.before[1].md.content, BEGIN_MARKER)
    /\ pristine[1].md = FileOf(<<"a">>)
    /\ pristine[1].profiles["profile-b"].exists
    /\ pipeRun.config.profile = "profile-b"
    /\ pipeRun.config.installType = "free"
    /\ MixinFile("_paid") \in pipeRun.before[1].profiles[DefaultProfile].files
    /\ MixinFile("_paid") \notin profilesOnDisk[DefaultProfile].files
    /\ mdFile = FreshInstall(pristine[1], pipeRun.config).md
    /\ mdFile # pipeRun.before[1].md

\* The config file on disk holds a username, a password and an organization
\* URL
HasCredentials(file) ==
    /\ file # NoFile
    /\ file.username # <<>> /\ file.password # <<>>
    /\ file.organizationUrl # <<>>

\* A step of the install command: the config file is left alone and the
\* command recorded afterwards is an install
InstallStep ==
    /\ UNCHANGED cfgVars
    /\ pipeRun'.cmd = "install"

\* C20: an install composes every built-in profile without any file of the
\* _paid or _docs-paid mixins when the config file holds no credentials, and
\* with the files of both when it holds them.
C20_PaidMixinsIffCredentials ==
    [][InstallStep =>
          \A n \in TemplateProfiles : \A m \in PaidMixins :
              (MixinFile(m) \in profilesOnDisk'[n].files) <=> HasCredentials(cfgFile)]_vars

\* a paid install over nothing has composed senior-swe with both paid mixins
C20_Witness ==
    /\ pipeRun.cmd = "install" /\ pipeRun.prev = "none"
    /\ HasCredentials(cfgFile) /\ pipeRun.config.installType = "paid"
    /\ ~pipeRun.before[1].profiles[DefaultProfile].exists
    /\ \A m \in PaidMixins :
          MixinFile(m) \in profilesOnDisk[DefaultProfile].files

(***************************************************************************)
(* Properties of the profile listings                                      *)
(***************************************************************************)

\* C19: no directory whose name starts with an underscore is in a listing of
\* profiles, whatever the package's and the installed profiles directory
\* hold.
C19_NoUnderscoreListed ==
    \A n \in listing.names : ~startsWithUnderscore(n)

(***************************************************************************)
(* Properties of config validation                                         *)
(***************************************************************************)

\* validateDiskConfig has judged the JSON object that lies on disk
Validated == validation # NoValidation /\ valFile.state = "json"

AuthValues(raw) == {raw.username, raw.password, raw.organizationUrl}

\* C21: when any of username, password, organizationUrl is present in the
\* config file and not all three are non-empty strings, validation reports an
\* error; when none of them is present the config is valid for free mode.
C21_AuthAllOrNothing ==
    Validated =>
        /\ ((\E j \in AuthValues(valFile) : j # JsonAbsent)
              /\ (\E j \in AuthValues(valFile) : ~(j.t = "string" /\ j.v # <<>>)))
             => ~validation.valid
        /\ (\A j \in AuthValues(valFile) : j = JsonAbsent)
             => /\ validation.valid
                /\ validation.message = "Config is valid for free mode (no credentials provided)"

\* C27: every config file saveDiskConfig wrote is accepted by
\* validateDiskConfig, and one saved with all three auth fields and a profile
\* is reported valid for paid mode.
C27_SavedConfigIsValid ==
    (Validated /\ valSaved # <<>>) =>
        /\ validation.valid
        /\ (/\ valSaved[1].username # <<>> /\ valSaved[1].password # <<>>
            /\ valSaved[1].organizationUrl # <<>> /\ valSaved[1].profile # <<>>)
             => validation.message = "Config is valid for paid mode"

(***************************************************************************)
(* Properties of the hook scripts                                          *)
(***************************************************************************)

UpdateAvailable ==
    /\ hookRun.latest # <<>> /\ hookRun.latest[1] # ""
    /\ hookRun.latest[1] # hookRun.installed[1]

SpawnedInstallStep == children' # children /\ children' \subseteq children

\* C28: a spawned install writes the version file only when every loader's
\* run has completed; when a loader fails the version files stay as they
\* were, so the installed version the autoupdate hook reads is the one it
\* read before and the version mismatch that started the install persists.
C28_VersionSavedAfterLoaders ==
    [][SpawnedInstallStep =>
          /\ versionFiles' # versionFiles
                => /\ ~pipeRun'.threw
                   /\ \A i \in 1..Len(Registered) :
                         Contains(pipeLog', Event("run", Registered[i], "end"))
          /\ pipeRun'.threw
                => /\ versionFiles' = versionFiles
                   /\ fsVersioned' = fsVersioned
                   /\ getInstalledVersion(<<>>)' = getInstalledVersion(<<>>)]_vars

\* after an install whose loader failed, the next autoupdate run found the
\* mismatch again and spawned the install again
C28_Witness ==
    /\ hookRun.hook = "autoupdate" /\ hookRun.afterFailedInstall
    /\ UpdateAvailable
    /\ hookRun.spawned # {} /\ hookRun.spawned \subseteq children
    /\ pipeRun.cmd = "install" /\ pipeRun.threw

(***************************************************************************)
(* Properties of template substitution                                     *)
(***************************************************************************)

\* One pass over the text: each placeholder becomes the path it stands for,
\* and nothing that was put in is looked at again
RECURSIVE SinglePass(_, _)
SinglePass(content, installDir) ==
    IF content = <<>> THEN <<>>
    ELSE (IF \E i \in 1..Len(Placeholders) : Placeholders[i] = Head(content)
          THEN PlaceholderValue(Head(content), installDir)
          ELSE <<Head(content)>>)
         \o SinglePass(Tail(content), installDir)

\* C24: for every text and every install directory the substitution gives
\* what a single pass gives, so text put in for one placeholder is never
\* rewritten as another placeholder.
C24_SubstitutionIsSinglePass ==
    template.done => template.result = SinglePass(template.content, template.installDir)

(***************************************************************************)
(* Properties of concurrent invocations                                    *)
(***************************************************************************)

BothDone == \A p \in Invocations : invocation[p].pc = "done"

\* The config file lacks the change of invocation p: the directory it added
\* is not listed, or the directory it removed is
ChangeMissing(p) ==
    LET dirs == ExistingDirs(loadDiskConfig(cfgFile))
    IN  IF invocation[p].op = "addInstallDir" THEN ~Contains(dirs, RaceDir(p))
        ELSE Contains(dirs, RaceDir(p))

\* The position of an event in the log (0 when it is not there)
LogIndex(e) ==
    IF \E i \in 1..Len(raceLog) : raceLog[i] = e
    THEN CHOOSE i \in 1..Len(raceLog) : raceLog[i] = e
    ELSE 0

\* Both loads came before the first save
LoadsBeforeSaves ==
    \A p, q \in Invocations : LogIndex(<<p, "load">>) < LogIndex(<<q, "save">>)

\* The save of invocation p changed the installDirs it had loaded
Effective(p) ==
    installDirsAfter(invocation[p].op, invocation[p].diskConfig, RaceDir(p))
        # ExistingDirs(invocation[p].diskConfig)

\* C26: nothing orders the load and the save of two invocations.  When both
\* have completed, the config file misses the change of one of them exactly
\* when both had loaded the file before either saved it and the one that
\* saved first had changed the list; the change of the one that saved last
\* is never missing.
C26_OverlapLosesAChange ==
    BothDone =>
        /\ (\E p \in Invocations : ChangeMissing(p))
               <=> (LoadsBeforeSaves /\ Effective(raceLog[3][1]))
        /\ ~ChangeMissing(raceLog[Len(raceLog)][1])

\* two overlapping addInstallDir calls, and the directory of the first is
\* not in the file
C26_Witness ==
    /\ BothDone /\ LoadsBeforeSaves
    /\ \A p \in Invocations : invocation[p].op = "addInstallDir"
    /\ raceLog[3] = <<1, "save">> /\ raceLog[4] = <<2, "save">>
    /\ ChangeMissing(1) /\ ~ChangeMissing(2)
    /\ cfgFile.installDirs = DirsArr(<<<<"/v">>>>)

\* A step of either download command, with any arguments
DownloadCommand ==
    \E u \in Opt(RegistryUrls), d \in Opt({InstallDirArg}), t \in TarballOutcomes :
        registryDownloadMain(u, d, t) \/ noriRegistryDownload(u, t)

\* The step ends with the already-exists error, having sent no registry
\* query, requested no tarball and run none of the mkdir / extract / rm
\* steps, and the target directory is still present
RefusedUntouched ==
    /\ regOutcome' = "alreadyExists"
    /\ regQueried' = <<>>
    /\ ~regTarball'.requested
    /\ regSteps' = <<>>
    /\ profileDir' = "present"

\* C29: a download command that finds the target profile directory present
\* ends with the already-exists error before any registry is queried and
\* leaves the directory as it was.  Stated by contraposition: a step from a
\* state with the directory present that is not such a refusal is not a step
\* of a download command.
C29_ExistingProfileDirUntouched ==
    [][profileDir = "present" /\ ~RefusedUntouched => ~DownloadCommand]_vars

\* a download refused over an existing directory although a registry holds
\* the profile and a command before it had queried the registries
C29_Witness ==
    /\ regOutcome = "alreadyExists" /\ profileDir = "present"
    /\ regQueried = <<>> /\ regSteps = <<>>
    /\ \E r \in Registries : regStatus[r] = "hit"
    /\ regOp.cmd \in {"registryDownload", "noriRegistryDownload"}

\* The subsystems a specification can leave at rest together
AuxIdle == ValIdle /\ HookIdle /\ TplIdle /\ RaceIdle /\ DirIdle

CfgIdle ==
    /\ cfgFile = NoFile
    /\ cfgPrev = NoFile
    /\ cfgOp = [name |-> "none", arg |-> <<>>]

(***************************************************************************)
(* Specifications                                                          *)
(***************************************************************************)

InitConfig == CfgInit /\ MdIdle /\ RegIdle /\ InstIdle /\ PipeIdle /\ ListIdle /\ AuxIdle
NextConfig ==
    \/ CfgSwitch /\ UNCHANGED <<mdVars, regVars, instVars, pipeVars, listVars, auxVars>>
    \/ CfgCursorSwitch /\ UNCHANGED <<mdVars, regVars, instVars, pipeVars, listVars, auxVars>>
    \/ CfgAddDir /\ UNCHANGED <<mdVars, regVars, instVars, pipeVars, listVars, auxVars>>
    \/ CfgRemoveDir /\ UNCHANGED <<mdVars, regVars, instVars, pipeVars, listVars, auxVars>>
SpecConfig == InitConfig /\ [][NextConfig]_vars

InitBlock == MdInit /\ CfgIdle /\ RegIdle /\ InstIdle /\ PipeIdle /\ ListIdle /\ AuxIdle
NextBlock ==
    \/ insertClaudeMd /\ UNCHANGED <<cfgVars, regVars, instVars, pipeVars, listVars, auxVars>>
    \/ removeClaudeMd /\ UNCHANGED <<cfgVars, regVars, instVars, pipeVars, listVars, auxVars>>
SpecBlock == InitBlock /\ [][NextBlock]_vars

RegDownload ==
    \E u \in Opt(RegistryUrls), t \in TarballOutcomes : registryDownloadMain(u, <<>>, t)
RegHookDownload ==
    \E u \in Opt(RegistryUrls), t \in TarballOutcomes : noriRegistryDownload(u, t)

InitRegistry == RegInit /\ CfgIdle /\ MdIdle /\ InstIdle /\ PipeIdle /\ ListIdle /\ AuxIdle
NextRegistry ==
    \/ RegDownload /\ UNCHANGED <<cfgVars, mdVars, pipeVars, listVars, auxVars>>
    \/ RegHookDownload /\ UNCHANGED <<cfgVars, mdVars, pipeVars, listVars, auxVars>>
    \/ registrySearchMain /\ UNCHANGED <<cfgVars, mdVars, instVars, pipeVars, listVars, auxVars>>
    \/ removeProfileDir /\ UNCHANGED <<cfgVars, mdVars, instVars, pipeVars, listVars, auxVars>>
SpecRegistry == InitRegistry /\ [][NextRegistry]_vars

InstCursorSwitch ==
    \E n \in Opt(RequestableProfiles) : cursorNoriSwitchProfile(n)
InstChdir == \E d \in Dirs : chdir(d)

InstDownload ==
    \E d \in Opt({InstallDirArg}), t \in TarballOutcomes : registryDownloadMain(<<>>, d, t)
InstHookDownload ==
    \E t \in TarballOutcomes : noriRegistryDownload(<<>>, t)

\* The config file of the installation a command acts on
InstCfgInit ==
    /\ cfgFile = EmptyObject
    /\ cfgPrev = EmptyObject
    /\ cfgOp = [name |-> "none", arg |-> <<>>]

InitInstallDirs == InstInit /\ InstCfgInit /\ MdIdle /\ RegIdle /\ PipeIdle /\ ListIdle /\ AuxIdle
NextInstallDirs ==
    \/ InstDownload /\ UNCHANGED <<cfgVars, mdVars, pipeVars, listVars, auxVars>>
    \/ InstHookDownload /\ UNCHANGED <<cfgVars, mdVars, pipeVars, listVars, auxVars>>
    \/ InstCursorSwitch /\ UNCHANGED <<mdVars, regVars, pipeVars, listVars, auxVars>>
    \/ nestedInstallWarning /\ UNCHANGED <<cfgVars, mdVars, regVars, pipeVars, listVars, auxVars>>
    \/ InstChdir /\ UNCHANGED <<cfgVars, mdVars, regVars, pipeVars, listVars, auxVars>>
SpecInstallDirs == InitInstallDirs /\ [][NextInstallDirs]_vars

\* The user selects the profile they created; the config file is in the
\* installation directory
PipeSwitch ==
    /\ switchProfile("profile-b")
    /\ fsMarked' = fsMarked \cup {InstallDirArg}
    /\ UNCHANGED <<fsCwd, resolution>>

\* The user takes the credentials out of the config file
PipeLogout ==
    /\ cfgFile # NoFile
    /\ cfgFile.username # <<>>
    /\ cfgFile' = [cfgFile EXCEPT !.username = <<>>, !.password = <<>>]
    /\ cfgPrev' = cfgFile
    /\ cfgOp' = [name |-> "logout", arg |-> <<>>]

PipeInstall == \E skipUninstall \in BOOLEAN : noninteractive(skipUninstall)

InitPipeline == PipeInit /\ RegIdle /\ ListIdle /\ AuxIdle
NextPipeline ==
    \/ PipeInstall /\ UNCHANGED <<cfgVars, regVars, listVars, auxVars>>
    \/ uninstallMain /\ UNCHANGED <<cfgVars, regVars, listVars, auxVars>>
    \/ PipeSwitch /\ UNCHANGED <<mdVars, regVars, pipeVars, listVars, auxVars>>
    \/ PipeLogout /\ UNCHANGED <<mdVars, regVars, instVars, pipeVars, listVars, auxVars>>
SpecPipeline == InitPipeline /\ [][NextPipeline]_vars

InitListing == ListInit /\ CfgIdle /\ MdIdle /\ RegIdle /\ InstIdle /\ PipeIdle /\ AuxIdle
NextListing ==
    \/ listProfiles /\ UNCHANGED <<cfgVars, mdVars, regVars, instVars, pipeVars, auxVars>>
    \/ getAvailableProfiles /\ UNCHANGED <<cfgVars, mdVars, regVars, instVars, pipeVars, auxVars>>
SpecListing == InitListing /\ [][NextListing]_vars

ValSave ==
    \E u \in Opt(Usernames), p \in Opt(Passwords), o \in Opt(OrgUrls),
       prof \in Opt({"profile-a"}), sst \in Opt(Toggles),
       dirs \in {DirsAbsent, DirsNull, DirsArr(<<<<"/w">>>>)} :
        valSaveDiskConfig(u, p, o, prof, sst, dirs)

InitValidate ==
    ValInit /\ CfgIdle /\ MdIdle /\ RegIdle /\ InstIdle /\ PipeIdle /\ ListIdle /\ HookIdle /\ TplIdle /\ RaceIdle /\ DirIdle
NextValidate ==
    \/ ValSave /\ UNCHANGED <<cfgVars, mdVars, regVars, instVars, pipeVars, listVars, hookVars, tplVars, raceVars, dirVars>>
    \/ valValidate /\ UNCHANGED <<cfgVars, mdVars, regVars, instVars, pipeVars, listVars, hookVars, tplVars, raceVars, dirVars>>
SpecValidate == InitValidate /\ [][NextValidate]_vars

HookAutoupdate ==
    \E latestVersion \in LatestVersions, fault \in HookFaults :
        /\ autoupdateMain(latestVersion, fault)
        /\ UNCHANGED <<cfgVars, mdVars, instVars, pipeVars>>
HookNested ==
    \E fault \in BOOLEAN :
        hookNestedInstallWarning(fault) /\ UNCHANGED <<cfgVars, mdVars, pipeVars>>
HookSummarize ==
    \E configLoads \in BOOLEAN, errorExit \in {0, 2} :
        /\ summarizeNotificationMain(configLoads, errorExit)
        /\ UNCHANGED <<cfgVars, mdVars, instVars, pipeVars>>
HookSpawnedInstall ==
    \E child \in children : spawnedInstallRuns(child) /\ UNCHANGED cfgVars

InitHooks == HookInit /\ RegIdle /\ ListIdle /\ ValIdle /\ TplIdle /\ RaceIdle /\ DirIdle
NextHooks ==
    \/ HookAutoupdate /\ UNCHANGED <<regVars, listVars, valVars, tplVars, raceVars, dirVars>>
    \/ HookNested /\ UNCHANGED <<regVars, listVars, valVars, tplVars, raceVars, dirVars>>
    \/ HookSummarize /\ UNCHANGED <<regVars, listVars, valVars, tplVars, raceVars, dirVars>>
    \/ HookSpawnedInstall /\ UNCHANGED <<regVars, listVars, valVars, tplVars, raceVars, dirVars>>
SpecHooks == InitHooks /\ [][NextHooks]_vars

TplCopy ==
    \E content \in TemplateContents, installDir \in ClaudeDirs :
        copyTemplate(content, installDir)

InitTemplate ==
    /\ TplIdle /\ CfgIdle /\ MdIdle /\ RegIdle /\ InstIdle /\ PipeIdle /\ ListIdle
    /\ ValIdle /\ HookIdle /\ RaceIdle /\ DirIdle
NextTemplate ==
    \/ TplCopy /\ UNCHANGED <<cfgVars, mdVars, regVars, instVars, pipeVars, listVars, valVars, hookVars, raceVars, dirVars>>
    \/ nextTemplate /\ UNCHANGED <<cfgVars, mdVars, regVars, instVars, pipeVars, listVars, valVars, hookVars, raceVars, dirVars>>
SpecTemplate == InitTemplate /\ [][NextTemplate]_vars

RaceLoad ==
    \E p \in Invocations, op \in {"addInstallDir", "removeInstallDir"} : raceLoad(p, op)
RaceSave == \E p \in Invocations : raceSave(p)

InitRace ==
    /\ RaceInit /\ MdIdle /\ RegIdle /\ InstIdle /\ PipeIdle /\ ListIdle
    /\ ValIdle /\ HookIdle /\ TplIdle /\ DirIdle
NextRace ==
    \/ RaceLoad /\ UNCHANGED <<mdVars, regVars, instVars, pipeVars, listVars, valVars, hookVars, tplVars, dirVars>>
    \/ RaceSave /\ UNCHANGED <<mdVars, regVars, instVars, pipeVars, listVars, valVars, hookVars, tplVars, dirVars>>
SpecRace == InitRace /\ [][NextRace]_vars

DirAdd == \E d \in DirArgs : callAddInstallDir(d)
DirRemove == \E d \in DirArgs : callRemoveInstallDir(d)

InitDirCalls ==
    /\ DirInit /\ MdIdle /\ RegIdle /\ InstIdle /\ PipeIdle /\ ListIdle
    /\ ValIdle /\ HookIdle /\ TplIdle /\ RaceIdle
NextDirCalls ==
    \/ DirAdd /\ UNCHANGED <<mdVars, regVars, instVars, pipeVars, listVars, valVars, hookVars, tplVars, raceVars>>
    \/ DirRemove /\ UNCHANGED <<mdVars, regVars, instVars, pipeVars, listVars, valVars, hookVars, tplVars, raceVars>>
SpecDirCalls == InitDirCalls /\ [][NextDirCalls]_vars

====
